---- MODULE Spec2Model ----
(***************************************************************************)
(* Model of the insert-path writer of MergeTree tables,                    *)
(* src/Storages/MergeTree/MergeTreeDataWriter.cpp:                         *)
(*   buildScatterSelector, splitBlockIntoParts, mergeBlock, writeTempPart, *)
(*   writeProjectionPart(Impl), TemporaryPart::finalize.                   *)
(*                                                                         *)
(* A Block is a sequence of rows; a row is a record with the columns       *)
(*   a  (the column the partition expressions read; the Date column of a   *)
(*       table of the old format),                                         *)
(*   k  (the sorting key column),                                          *)
(*   v  (the sign / version / value column the merging algorithms read).   *)
(* Row numbers are 0-based as in the code; row i of a block b is b[i + 1]. *)
(***************************************************************************)
EXTENDS Integers, Sequences, FiniteSets, TLC

\* ------------------------------------------------------------------ bounds
MaxRows == 3          \* rows of an input block
MaxSplitRows == 4     \* rows of an input block in the split model
MaxA == 2             \* values 0..MaxA of column a in the split model
MaxPartsSetting == 2  \* values 0..MaxPartsSetting of max_partitions_per_insert_block

\* ------------------------------------------------------------ generic helpers
Range(s) == {s[i] : i \in 1..Len(s)}

RECURSIVE SeqsUpTo(_, _)
\* all sequences over S of length 1..n
SeqsUpTo(S, n) ==
    IF n = 0 THEN {}
    ELSE LET shorter == SeqsUpTo(S, n - 1)
         IN  {<<x>> : x \in S} \cup shorter \cup
             {Append(s, x) : s \in {t \in shorter : Len(t) = n - 1}, x \in S}

\* number of occurrences of the row r in the sequence s
Count(s, r) == Cardinality({i \in 1..Len(s) : s[i] = r})

RECURSIVE Concat(_)
Concat(ss) == IF ss = <<>> THEN <<>> ELSE Head(ss) \o Concat(Tail(ss))

ColumnNames == <<"a", "k", "v">>

\* block.getByPosition(col).column / block.getByName(name).column
Column(block, name) == [i \in 1..Len(block) |-> block[i][name]]

\* ------------------------------------------------------------------ calendar
\* DateLUT::toNumYYYYMM(DayNum): day numbers count from 1970-01-01.
\* 1970 and 1971 are not leap years, so both years share one table of
\* cumulative month lengths.
DaysInYear == 365
MonthStarts == <<0, 31, 59, 90, 120, 151, 181, 212, 243, 273, 304, 334>>
EpochYear == 1970

toYear(d) == EpochYear + (d \div DaysInYear)
toMonth(d) ==
    LET doy == d % DaysInYear
    IN  Cardinality({m \in 1..Len(MonthStarts) : MonthStarts[m] <= doy})
toNumYYYYMM(d) == toYear(d) * 100 + toMonth(d)

\* -------------------------------------------------------- partition expression
\* KeyDescription of the partition key: a list of expressions over the block.
EvalExpr(e, r) ==
    CASE e = "a"            -> r.a
      [] e = "a % 2"        -> r.a % 2
      [] e = "intDiv(a, 2)" -> r.a \div 2
      [] e = "k"            -> r.k
      [] e = "toYYYYMM(a)"  -> toNumYYYYMM(r.a)

\* MergeTreePartition::executePartitionByExpression: adds one column per
\* partition expression to the copy of the block; returned here as the list of
\* those columns (partition_columns of splitBlockIntoParts).
executePartitionByExpression(partition_key, block) ==
    [j \in 1..Len(partition_key) |->
        [i \in 1..Len(block) |-> EvalExpr(partition_key[j], block[i])]]

\* the partition tuple of one row
PartitionTuple(partition_key, r) ==
    [j \in 1..Len(partition_key) |-> EvalExpr(partition_key[j], r)]

\* hash128(i, keys_size, key_columns): SipHash over the values of row i in the
\* key columns, 128 bits.  SipHash is not expanded: the key is the list of words
\* fed to the hash, i.e. the hash is taken to be collision-free on the keys of
\* the model.
hash128(i, keys_size, key_columns) ==
    [j \in 1..keys_size |-> key_columns[j][i + 1]]

\* ------------------------------------------------------- buildScatterSelector
\* A PODArray allocated with a size is not initialized: its cells hold this
\* marker until they are assigned.
Uninitialized == 0 - 1

ScatterInit ==
    [partitions_map |-> <<>>, partition_num_to_first_row |-> <<>>,
     selector |-> <<>>, partitions_count |-> 0,
     thrown |-> FALSE, rows_examined |-> 0]

\* lines 89-90 without the std::fill
AllocateSelector_NoFill(num_rows, i) ==
    [r \in 1..num_rows |-> Uninitialized]

\* lines 89-90: selector = IColumn::Selector(num_rows), the rows before i set to 0
AllocateSelector(num_rows, i) ==
    [r \in 1..num_rows |-> IF r <= i THEN 0 ELSE Uninitialized]

\* lines 81-95 with selector[i] written only for the first row of a partition
ScatterInsert_FirstRowsOnly(columns, num_rows, i, st) ==
    LET key == hash128(i, Len(columns), columns)
        inserted == key \notin DOMAIN st.partitions_map
        count1 == IF inserted THEN st.partitions_count + 1 ELSE st.partitions_count
        map1 == IF inserted THEN (key :> st.partitions_count) @@ st.partitions_map
                ELSE st.partitions_map
        first1 == IF inserted THEN Append(st.partition_num_to_first_row, i)
                  ELSE st.partition_num_to_first_row
        sel1 == IF inserted /\ count1 = 2
                THEN AllocateSelector(num_rows, i)
                ELSE st.selector
        sel2 == IF inserted /\ count1 > 1 THEN [sel1 EXCEPT ![i + 1] = map1[key]] ELSE sel1
    IN  [st EXCEPT !.partitions_map = map1,
                   !.partition_num_to_first_row = first1,
                   !.selector = sel2,
                   !.partitions_count = count1,
                   !.rows_examined = i + 1]

\* lines 81-95: a new partition is recorded; the selector is allocated when the
\* second partition appears and is written from then on
ScatterInsert(columns, num_rows, i, st) ==
    LET key == hash128(i, Len(columns), columns)
        inserted == key \notin DOMAIN st.partitions_map
        count1 == IF inserted THEN st.partitions_count + 1 ELSE st.partitions_count
        map1 == IF inserted THEN (key :> st.partitions_count) @@ st.partitions_map
                ELSE st.partitions_map
        first1 == IF inserted THEN Append(st.partition_num_to_first_row, i)
                  ELSE st.partition_num_to_first_row
        sel1 == IF inserted /\ count1 = 2
                THEN AllocateSelector(num_rows, i)
                ELSE st.selector
        sel2 == IF count1 > 1 THEN [sel1 EXCEPT ![i + 1] = map1[key]] ELSE sel1
    IN  [st EXCEPT !.partitions_map = map1,
                   !.partition_num_to_first_row = first1,
                   !.selector = sel2,
                   !.partitions_count = count1,
                   !.rows_examined = i + 1]

\* the limit applied one partition too late
ScatterRow_LateLimit(columns, max_parts, num_rows, i, st) ==
    LET key == hash128(i, Len(columns), columns)
        inserted == key \notin DOMAIN st.partitions_map
    IN  IF inserted /\ max_parts # 0 /\ st.partitions_count > max_parts
        THEN [st EXCEPT !.thrown = TRUE, !.rows_examined = i + 1]
        ELSE ScatterInsert(columns, num_rows, i, st)

\* one iteration of the loop body for row i (lines 71-95)
ScatterRow(columns, max_parts, num_rows, i, st) ==
    LET key == hash128(i, Len(columns), columns)
        inserted == key \notin DOMAIN st.partitions_map
    IN  IF inserted /\ max_parts # 0 /\ st.partitions_count >= max_parts
        THEN \* throw Exception(..., ErrorCodes::TOO_MANY_PARTS)
             [st EXCEPT !.thrown = TRUE, !.rows_examined = i + 1]
        ELSE ScatterInsert(columns, num_rows, i, st)

RECURSIVE ScatterLoop(_, _, _, _, _)
ScatterLoop(columns, max_parts, num_rows, i, st) ==
    IF i >= num_rows \/ st.thrown THEN st
    ELSE ScatterLoop(columns, max_parts, num_rows, i + 1,
                     ScatterRow(columns, max_parts, num_rows, i, st))

buildScatterSelector(columns, max_parts) ==
    LET num_rows == Len(columns[1])
    IN  ScatterLoop(columns, max_parts, num_rows, 0, ScatterInit)

\* --------------------------------------------------------- IColumn::scatter
\* column->scatter(num_columns, selector): the values of the column, in order,
\* distributed over num_columns columns by selector.
RECURSIVE scatterFrom(_, _, _, _)
scatterFrom(column, selector, p, i) ==
    IF i > Len(column) THEN <<>>
    ELSE (IF selector[i] = p THEN <<column[i]>> ELSE <<>>)
         \o scatterFrom(column, selector, p, i + 1)

scatter(column, num_columns, selector) ==
    [p \in 1..num_columns |-> scatterFrom(column, selector, p - 1, 1)]

\* ------------------------------------------------------ splitBlockIntoParts
NoException == "none"

SplitReturn(result, scatter_state) ==
    [result |-> result, exception |-> NoException, scatter |-> scatter_state]

\* lines 158-162 with one element for each row of the block
NotPartitioned_PerRow(block) ==
    SplitReturn([i \in 1..Len(block) |-> [block |-> <<block[i]>>, partition |-> <<>>]],
                ScatterInit)

\* lines 158-162: result.emplace_back(Block(block), Row{}); return result;
NotPartitioned(block) ==
    SplitReturn(<<[block |-> block, partition |-> <<>>]>>, ScatterInit)

splitBlockIntoParts(block, max_parts, metadata) ==
    IF Len(block) = 0
    THEN SplitReturn(<<>>, ScatterInit)
    ELSE IF Len(metadata.partition_key) = 0      \* !hasPartitionKey()
    THEN NotPartitioned(block)
    ELSE
    LET partition_columns == executePartitionByExpression(metadata.partition_key, block)
        st == buildScatterSelector(partition_columns, max_parts)
        partitions_count == Len(st.partition_num_to_first_row)
        get_partition(num) ==
            [j \in 1..Len(partition_columns) |->
                partition_columns[j][st.partition_num_to_first_row[num + 1] + 1]]
        scattered == [name \in Range(ColumnNames) |->
                        scatter(Column(block, name), partitions_count, st.selector)]
        sub_block(p) ==
            [i \in 1..Len(scattered["a"][p]) |->
                [name \in Range(ColumnNames) |-> scattered[name][p][i]]]
    IN  IF st.thrown
        THEN [result |-> <<>>, exception |-> "TOO_MANY_PARTS", scatter |-> st]
        ELSE IF partitions_count = 1
        THEN SplitReturn(<<[block |-> block, partition |-> get_partition(0)]>>, st)
        ELSE SplitReturn([p \in 1..partitions_count |->
                            [block |-> sub_block(p), partition |-> get_partition(p - 1)]],
                         st)

\* ------------------------------------------------------------------- sorting
\* the values of the sort columns of a row (SortDescription: ascending, nulls last)
SortKey(sort_description, r) ==
    [j \in 1..Len(sort_description) |-> r[sort_description[j]]]

\* lexicographic "less" on two key tuples of the same length
LexLess(x, y) ==
    \E j \in 1..Len(x) :
        /\ x[j] < y[j]
        /\ \A h \in 1..(j - 1) : x[h] = y[h]

\* isAlreadySorted(block, sort_description): one linear pass over adjacent rows
isAlreadySorted(block, sort_description) ==
    \A i \in 1..(Len(block) - 1) :
        ~LexLess(SortKey(sort_description, block[i + 1]),
                 SortKey(sort_description, block[i]))

\* stableGetPermutation(block, sort_description, perm): perm[j + 1] is the number
\* of the row that comes j-th in sorted order; rows with equal keys keep their
\* order.  Computed by stable insertion of the rows 0, 1, 2, ...
InsertStable(block, sort_description, perm, i) ==
    \* place row i after every row of perm whose key is not greater
    LET key(n) == SortKey(sort_description, block[n + 1])
        before == {j \in 1..Len(perm) : ~LexLess(key(i), key(perm[j]))}
        pos == Cardinality(before)
    IN  SubSeq(perm, 1, pos) \o <<i>> \o SubSeq(perm, pos + 1, Len(perm))

RECURSIVE PermutationFrom(_, _, _, _)
PermutationFrom(block, sort_description, perm, i) ==
    IF i >= Len(block) THEN perm
    ELSE PermutationFrom(block, sort_description,
                         InsertStable(block, sort_description, perm, i), i + 1)

stableGetPermutation(block, sort_description) ==
    PermutationFrom(block, sort_description, <<>>, 0)

NullPtr == "nullptr"
PermPtr == "&perm"

\* the rows in the order a reader of (block, permutation) sees them
Permuted(block, perm_ptr, perm) ==
    IF perm_ptr = NullPtr THEN block
    ELSE [j \in 1..Len(perm) |-> block[perm[j] + 1]]

\* --------------------------------------------------------- merging algorithms
\* MergeTreeData::MergingParams::Mode
MergingModes ==
    {"Ordinary", "Replacing", "Collapsing", "Summing", "Aggregating",
     "VersionedCollapsing", "Graphite"}

\* the maximal runs of adjacent rows with equal sorting key
RECURSIVE Classes(_, _)
Classes(rows, sort_description) ==
    IF rows = <<>> THEN <<>>
    ELSE LET key(r) == SortKey(sort_description, r)
             same == {n \in 1..Len(rows) :
                        \A m \in 1..n : key(rows[m]) = key(rows[1])}
             n == Cardinality(same)
         IN  <<SubSeq(rows, 1, n)>> \o Classes(SubSeq(rows, n + 1, Len(rows)), sort_description)

RECURSIVE SumV(_)
SumV(rows) == IF rows = <<>> THEN 0 ELSE Head(rows).v + SumV(Tail(rows))

\* cancels adjacent rows of opposite sign, left to right
RECURSIVE CancelAdjacent(_, _)
CancelAdjacent(kept, rows) ==
    IF rows = <<>> THEN kept
    ELSE IF kept # <<>> /\ kept[Len(kept)].v = 0 - Head(rows).v /\ Head(rows).v # 0
         THEN CancelAdjacent(SubSeq(kept, 1, Len(kept) - 1), Tail(rows))
         ELSE CancelAdjacent(Append(kept, Head(rows)), Tail(rows))

\* what one class of equivalent rows is reduced to, per mode
ReduceClass(mode, class) ==
    LET positive == SelectSeq(class, LAMBDA r : r.v > 0)
        negative == SelectSeq(class, LAMBDA r : r.v < 0)
        maxv == CHOOSE x \in {class[i].v : i \in 1..Len(class)} :
                    \A i \in 1..Len(class) : class[i].v <= x
        lastmax == CHOOSE i \in 1..Len(class) :
                    /\ class[i].v = maxv
                    /\ \A h \in (i + 1)..Len(class) : class[h].v # maxv
    IN  CASE mode = "Replacing" -> <<class[lastmax]>>
          [] mode = "Collapsing" ->
                IF Len(positive) > Len(negative) THEN <<positive[Len(positive)]>>
                ELSE IF Len(negative) > Len(positive) THEN <<negative[1]>>
                ELSE <<>>
          [] mode = "Summing" -> <<[class[1] EXCEPT !.v = SumV(class)]>>
          [] mode = "Aggregating" -> <<class[1]>>
          [] mode = "VersionedCollapsing" -> CancelAdjacent(<<>>, class)
          [] mode = "Graphite" -> <<[class[Len(class)] EXCEPT !.v = SumV(class)]>>

\* IMergingAlgorithm over a single input: the chunk it returns when it finishes,
\* for the rows read in the order of the permutation
MergedChunk(mode, rows, sort_description) ==
    LET classes == Classes(rows, sort_description)
    IN  Concat([c \in 1..Len(classes) |-> ReduceClass(mode, classes[c])])

\* IMergingAlgorithm::Status as mergeBlock reads it
Statuses ==
    [required_source : {0 - 1, 0, 1}, is_finished : BOOLEAN]

NotCalled == [required_source |-> 0 - 1, is_finished |-> FALSE]

\* an algorithm that follows the protocol: it asks for input 0, then finishes
ProtocolStatuses ==
    [first |-> {[required_source |-> 0, is_finished |-> FALSE]},
     second |-> {[required_source |-> 0 - 1, is_finished |-> TRUE]}]

\* any algorithm: every status at the first call; at the second call only
\* is_finished is read
AnyStatuses ==
    [first |-> Statuses,
     second |-> {[required_source |-> 0 - 1, is_finished |-> f] : f \in BOOLEAN}]

\* ------------------------------------------------------------------ mergeBlock
\* status1, status2: what the two calls of merging_algorithm->merge() return.
\* Returns the block, the permutation pointer as the caller sees it afterwards,
\* the exception, whether an algorithm was created, and the number of merge()
\* calls made.
MergeOutcome(block, perm_ptr, exception, created, calls) ==
    [block |-> block, perm_ptr |-> perm_ptr, exception |-> exception,
     algorithm |-> created, merge_calls |-> calls]

\* lines 210-280 without permutation = nullptr at line 277
mergeBlock_PermutationKept(block, sort_description, perm_ptr, perm, mode, status1, status2) ==
    IF mode = "Ordinary"
    THEN MergeOutcome(block, perm_ptr, NoException, FALSE, 0)
    ELSE IF status1.required_source # 0
    THEN MergeOutcome(block, perm_ptr, "LOGICAL_ERROR", TRUE, 1)
    ELSE IF ~status2.is_finished
    THEN MergeOutcome(block, perm_ptr, "LOGICAL_ERROR", TRUE, 2)
    ELSE MergeOutcome(MergedChunk(mode, Permuted(block, perm_ptr, perm), sort_description),
                      perm_ptr, NoException, TRUE, 2)

mergeBlock(block, sort_description, perm_ptr, perm, mode, status1, status2) ==
    IF mode = "Ordinary"                       \* get_merging_algorithm() == nullptr
    THEN MergeOutcome(block, perm_ptr, NoException, FALSE, 0)
    ELSE IF status1.required_source # 0
    THEN MergeOutcome(block, perm_ptr, "LOGICAL_ERROR", TRUE, 1)
    ELSE IF ~status2.is_finished
    THEN MergeOutcome(block, perm_ptr, "LOGICAL_ERROR", TRUE, 2)
    ELSE MergeOutcome(MergedChunk(mode, Permuted(block, perm_ptr, perm), sort_description),
                      NullPtr, NoException, TRUE, 2)

\* ------------------------------------------------------------- part naming
\* MERGE_TREE_DATA_MIN_FORMAT_VERSION_WITH_CUSTOM_PARTITIONING
MinFormatVersionWithCustomPartitioning == 1

TMP_PREFIX == "tmp_insert_"

toDayOfMonth(d) == (d % DaysInYear) - MonthStarts[toMonth(d)] + 1
toNumYYYYMMDD(d) == toNumYYYYMM(d) * 100 + toDayOfMonth(d)

\* the source column an expression of the partition key reads
ExprColumn(e) == IF e = "k" THEN "k" ELSE "a"

\* data.getMinMaxColumnsNames(partition_key): the columns the partition key
\* requires, each once, in order of first use
RECURSIVE getMinMaxColumnsNames(_)
getMinMaxColumnsNames(partition_key) ==
    IF partition_key = <<>> THEN <<>>
    ELSE LET n == Len(partition_key)
             init == getMinMaxColumnsNames(SubSeq(partition_key, 1, n - 1))
             c == ExprColumn(partition_key[n])
         IN  IF c \in Range(init) THEN init ELSE Append(init, c)

SetMin(S) == CHOOSE x \in S : \A y \in S : x <= y
SetMax(S) == CHOOSE x \in S : \A y \in S : y <= x

\* MinMaxIndex::update(block, column_names): one closed interval per column
\* (the hyperrectangle); nothing for a block without rows
MinMaxUpdate(block, column_names) ==
    IF block = <<>> THEN <<>>
    ELSE [j \in 1..Len(column_names) |->
            [left  |-> SetMin(Range(Column(block, column_names[j]))),
             right |-> SetMax(Range(Column(block, column_names[j])))]]

\* lines 299-300 with the columns of the sorting key in place of those of the
\* partition key
MinMaxOnEntry_SortingKey(block, metadata) ==
    MinMaxUpdate(block, metadata.sorting_key)

\* lines 299-300: minmax_idx.update(block, getMinMaxColumnsNames(partition key))
MinMaxOnEntry(block, metadata) ==
    MinMaxUpdate(block, getMinMaxColumnsNames(metadata.partition_key))

\* MergeTreePartition::getID: "all" for the empty tuple, else the values
\* joined by '-'
RECURSIVE JoinValues(_)
JoinValues(values) ==
    IF Len(values) = 1 THEN ToString(values[1])
    ELSE JoinValues(SubSeq(values, 1, Len(values) - 1)) \o "-" \o ToString(values[Len(values)])

getID(partition) == IF partition = <<>> THEN "all" ELSE JoinValues(partition)

\* MergeTreePartInfo(partition_id, min_block, max_block, level)
MergeTreePartInfo(partition_id, min_block, max_block, level) ==
    [partition_id |-> partition_id, min_block |-> min_block,
     max_block |-> max_block, level |-> level]

BlockSuffix(info) ==
    "_" \o ToString(info.min_block) \o "_" \o ToString(info.max_block)
        \o "_" \o ToString(info.level)

getPartName(info) == info.partition_id \o BlockSuffix(info)

getPartNameV0(info, min_date, max_date) ==
    ToString(toNumYYYYMMDD(min_date)) \o "_" \o ToString(toNumYYYYMMDD(max_date))
        \o BlockSuffix(info)

\* line 304 without the temp index
NewPartInfo_NoIndex(partition_id, temp_index) ==
    MergeTreePartInfo(partition_id, 0, 0, 0)

\* line 304: MergeTreePartInfo(partition.getID(...), temp_index, temp_index, 0)
NewPartInfo(partition_id, temp_index) ==
    MergeTreePartInfo(partition_id, temp_index, temp_index, 0)

\* lines 313-316 comparing the month of the year only
SpansMonths_MonthOfYear(min_date, max_date) ==
    toMonth(min_date) # toMonth(max_date)

\* lines 313-316: min_month != max_month
SpansMonths(min_date, max_date) ==
    toNumYYYYMM(min_date) # toNumYYYYMM(max_date)

\* SimpleIncrement::get(): the counter after an atomic increment
IncrementGet(value) == value + 1

\* Block::bytes(): every value of the model takes one unit
bytes(block) == Len(block) * Len(ColumnNames)

\* --------------------------------------------------------------- projections
\* ProjectionDescription: name, type, and the sorting key of its metadata
ProjectionSortingKey(projection) ==
    IF projection.type = "Aggregate" THEN <<"k">> ELSE <<"v">>

\* the first row of every distinct k, in order of appearance, with v summed
RECURSIVE GroupByK(_, _)
GroupByK(rows, seen) ==
    IF rows = <<>> THEN <<>>
    ELSE IF Head(rows).k \in seen THEN GroupByK(Tail(rows), seen)
    ELSE <<[Head(rows) EXCEPT
              !.v = SumV(SelectSeq(rows, LAMBDA r : r.k = Head(rows).k))]>>
         \o GroupByK(Tail(rows), seen \cup {Head(rows).k})

\* the rows the projection's query reads: all, or those its condition keeps
Selected(projection, block) ==
    IF projection.where = "v > 0" THEN SelectSeq(block, LAMBDA r : r.v > 0) ELSE block

\* projection.calculate(block, context): the projection's query run over the block
calculate(projection, block) ==
    IF projection.type = "Aggregate" THEN GroupByK(Selected(projection, block), {})
    ELSE Selected(projection, block)

\* ------------------------------------------------------------------ updateTTL
\* DateLUT::fromDayNum: the first second of the day
fromDayNum(d) == d * 86400

\* MergeTreeDataPartTTLInfo: min and max, 0 while no time was folded in
EmptyTTLInfo == [min |-> 0, max |-> 0]

\* MergeTreeDataPartTTLInfo::update(time)
TTLInfoUpdate(ttl_info, time) ==
    [min |-> IF time # 0 /\ (ttl_info.min = 0 \/ time < ttl_info.min)
             THEN time ELSE ttl_info.min,
     max |-> IF time > ttl_info.max THEN time ELSE ttl_info.max]

\* MergeTreeDataPartTTLInfos: the rows TTL, one map per other category, and
\* the part-wide minimum and maximum
EmptyTTLInfos ==
    [table_ttl |-> EmptyTTLInfo, group_by_ttl |-> <<>>, rows_where_ttl |-> <<>>,
     columns_ttl |-> <<>>, recompression_ttl |-> <<>>, moves_ttl |-> <<>>,
     part_min_ttl |-> 0, part_max_ttl |-> 0]

\* map[key] of a TTLInfoMap: the entry, a default one if there is none yet
MapGet(map, key) == IF key \in DOMAIN map THEN map[key] ELSE EmptyTTLInfo

MapPut(map, key, ttl_info) ==
    [x \in DOMAIN map \cup {key} |-> IF x = key THEN ttl_info ELSE map[x]]

\* MergeTreeDataPartTTLInfos::updatePartMinMaxTTL(time_min, time_max)
updatePartMinMaxTTL(ttl_infos, time_min, time_max) ==
    [ttl_infos EXCEPT
        !.part_min_ttl = IF time_min # 0 /\ (@ = 0 \/ time_min < @) THEN time_min ELSE @,
        !.part_max_ttl = IF time_max # 0 /\ (@ = 0 \/ time_max > @) THEN time_max ELSE @]

\* MergeTreeDataPartTTLInfo::update(other_info)
TTLInfoMerge(ttl_info, other_info) ==
    TTLInfoUpdate(TTLInfoUpdate(ttl_info, other_info.min), other_info.max)

TTLInfoMapMerge(map, other) ==
    [x \in DOMAIN map \cup DOMAIN other |->
        IF x \in DOMAIN other THEN TTLInfoMerge(MapGet(map, x), other[x]) ELSE map[x]]

\* the columns TTLs and the rows TTL of the other infos, folded part-wide
RECURSIVE PartMinMaxOf(_, _)
PartMinMaxOf(ttl_infos, folded) ==
    IF folded = {} THEN ttl_infos
    ELSE LET ttl_info == CHOOSE x \in folded : TRUE
         IN  PartMinMaxOf(updatePartMinMaxTTL(ttl_infos, ttl_info.min, ttl_info.max),
                          folded \ {ttl_info})

\* MergeTreeDataPartTTLInfos::update(other_infos)
TTLInfosUpdate(ttl_infos, other_infos) ==
    PartMinMaxOf(
        [ttl_infos EXCEPT
            !.table_ttl = TTLInfoMerge(@, other_infos.table_ttl),
            !.group_by_ttl = TTLInfoMapMerge(@, other_infos.group_by_ttl),
            !.rows_where_ttl = TTLInfoMapMerge(@, other_infos.rows_where_ttl),
            !.columns_ttl = TTLInfoMapMerge(@, other_infos.columns_ttl),
            !.recompression_ttl = TTLInfoMapMerge(@, other_infos.recompression_ttl),
            !.moves_ttl = TTLInfoMapMerge(@, other_infos.moves_ttl)],
        {other_infos.columns_ttl[x] : x \in DOMAIN other_infos.columns_ttl}
            \cup {TTLInfoMerge(ttl_infos.table_ttl, other_infos.table_ttl)})

\* the types of the result column updateTTL accepts (lines 110-136)
ExpectedTTLTypes == {"UInt16", "UInt32", "Const(UInt16)", "Const(UInt32)"}

\* ITTLAlgorithm::executeExpressionAndGetColumn: the values of the column, one
\* a row, or the one value of a constant column
TTLValues(ttl_entry, block) ==
    IF ttl_entry.type \in {"Const(UInt16)", "Const(UInt32)"} THEN <<ttl_entry.plus>>
    ELSE [i \in 1..Len(block) |-> block[i][ttl_entry.column] + ttl_entry.plus]

\* lines 110-131: a day number goes through the calendar, a time as it is
TTLTime(ttl_entry, val) ==
    IF ttl_entry.type \in {"UInt16", "Const(UInt16)"} THEN fromDayNum(val) ELSE val

\* the loops of lines 113-114 and 118-119
RECURSIVE FoldTTL(_, _, _, _)
FoldTTL(ttl_entry, values, i, ttl_info) ==
    IF i > Len(values) THEN ttl_info
    ELSE FoldTTL(ttl_entry, values, i + 1,
                 TTLInfoUpdate(ttl_info, TTLTime(ttl_entry, values[i])))

\* lines 100-139 with the part-wide update made for every category
updateTTL_AlwaysPartWide(ttl_entry, ttl_infos, ttl_info, block, update_part_min_max_ttls) ==
    IF ttl_entry.type \notin ExpectedTTLTypes
    THEN [ttl_infos |-> ttl_infos, ttl_info |-> ttl_info, exception |-> "LOGICAL_ERROR"]
    ELSE [ttl_infos |-> updatePartMinMaxTTL(ttl_infos,
                            FoldTTL(ttl_entry, TTLValues(ttl_entry, block), 1, ttl_info).min,
                            FoldTTL(ttl_entry, TTLValues(ttl_entry, block), 1, ttl_info).max),
          ttl_info |-> FoldTTL(ttl_entry, TTLValues(ttl_entry, block), 1, ttl_info),
          exception |-> NoException]

\* lines 100-139: ttl_info is the entry of ttl_infos the caller passes by
\* reference; the result holds both as the call leaves them
updateTTL(ttl_entry, ttl_infos, ttl_info, block, update_part_min_max_ttls) ==
    IF ttl_entry.type \notin ExpectedTTLTypes
    THEN [ttl_infos |-> ttl_infos, ttl_info |-> ttl_info, exception |-> "LOGICAL_ERROR"]
    ELSE [ttl_infos |-> IF update_part_min_max_ttls
                        THEN updatePartMinMaxTTL(ttl_infos,
                                FoldTTL(ttl_entry, TTLValues(ttl_entry, block), 1, ttl_info).min,
                                FoldTTL(ttl_entry, TTLValues(ttl_entry, block), 1, ttl_info).max)
                        ELSE ttl_infos,
          ttl_info |-> FoldTTL(ttl_entry, TTLValues(ttl_entry, block), 1, ttl_info),
          exception |-> NoException]

\* the key of an entry in the map of its category: the column for a column
\* TTL (line 438), the result column otherwise
TTLKey(ttl_entry, category) ==
    IF category = "columns_ttl" THEN ttl_entry.name ELSE ttl_entry.result_column

\* one updateTTL call on the entry map[key] of a category
UpdateMapEntry(ttl_entry, category, updated) ==
    [ttl_infos |-> [updated.ttl_infos EXCEPT
                        ![category] = MapPut(@, TTLKey(ttl_entry, category), updated.ttl_info)],
     exception |-> updated.exception]

\* the loops of lines 369-370, 431-432, 434-435, 437-438 and 441-442
RECURSIVE updateTTLs(_, _, _, _, _, _)
updateTTLs(ttl_entries, i, category, st, block, update_part_min_max_ttls) ==
    IF i > Len(ttl_entries) \/ st.exception # NoException THEN st
    ELSE updateTTLs(ttl_entries, i + 1, category,
            UpdateMapEntry(ttl_entries[i], category,
                updateTTL(ttl_entries[i], st.ttl_infos,
                          MapGet(st.ttl_infos[category], TTLKey(ttl_entries[i], category)),
                          block, update_part_min_max_ttls)),
            block, update_part_min_max_ttls)

\* the result of updateTTL on ttl_infos.table_ttl
UpdateTableEntry(updated) ==
    [ttl_infos |-> [updated.ttl_infos EXCEPT !.table_ttl = updated.ttl_info],
     exception |-> updated.exception]

\* lines 428-429: the rows TTL of the table, if it has one
updateRowsTTL(rows_ttl, st, block) ==
    IF rows_ttl = <<>> THEN st
    ELSE UpdateTableEntry(updateTTL(rows_ttl[1], st.ttl_infos, st.ttl_infos.table_ttl,
                                    block, TRUE))

NoTTLInfos == [ttl_infos |-> EmptyTTLInfos, exception |-> NoException]

\* lines 367-370: move_ttl_infos
MoveTTLInfos(ttl, block) ==
    updateTTLs(ttl.move, 1, "moves_ttl", NoTTLInfos, block, FALSE)

\* line 444: new_data_part->ttl_infos.update(move_ttl_infos)
UpdateWithMoves(st, move_ttl_infos) ==
    IF st.exception # NoException THEN st
    ELSE [st EXCEPT !.ttl_infos = TTLInfosUpdate(@, move_ttl_infos)]

\* lines 428-444: new_data_part->ttl_infos
PartTTLInfos(ttl, move_ttl_infos, block) ==
    UpdateWithMoves(
        updateTTLs(ttl.recompression, 1, "recompression_ttl",
            updateTTLs(ttl.columns, 1, "columns_ttl",
                updateTTLs(ttl.rows_where, 1, "rows_where_ttl",
                    updateTTLs(ttl.group_by, 1, "group_by_ttl",
                        updateRowsTTL(ttl.rows, NoTTLInfos, block),
                        block, TRUE),
                    block, TRUE),
                block, TRUE),
            block, FALSE),
        move_ttl_infos)

\* ---------------------------------------------------------------------- state
VARIABLES
    metadata_snapshot,  \* partition_key, sorting_key, secondary_indices, projections, ttl
    data,               \* format_version, merging_params (mode), part_type chosen for inserts
    settings,           \* optimize_on_insert, max_parts
    insert_increment,   \* data.insert_increment
    temporary_parts,    \* directory names held through getTemporaryPartDirectoryHolder
    disk,               \* existing directories: [dir, sub], sub = "" for a part directory
    profile_events,     \* ProfileEvents counters
    algorithm_statuses, \* what merge() of the merging algorithms in use may return
    wr                  \* per thread: the insert in progress and its writeTempPart call

config_vars == <<metadata_snapshot, data, settings, algorithm_statuses>>
vars == <<metadata_snapshot, data, settings, algorithm_statuses, insert_increment,
          temporary_parts, disk, profile_events, wr>>

NoSplit ==
    [called |-> FALSE, result |-> <<>>, exception |-> NoException, scatter |-> ScatterInit]

NoMerge ==
    [called |-> FALSE, algorithm |-> FALSE, merge_calls |-> 0,
     status1 |-> NotCalled, status2 |-> NotCalled]

\* TemporaryPart{}: part and builder are absent (<<>>), no streams, no lock
EmptyTemporaryPart ==
    [part |-> <<>>, builder |-> <<>>, streams |-> <<>>, temporary_directory_lock |-> <<>>]

\* the locals of one writeTempPart call before its first statement
CallLocals ==
    [bwp_block |-> <<>>, block |-> <<>>, partition |-> <<>>,
     temp_index |-> 0, increment_reads |-> 0,
     minmax_idx |-> <<>>, new_part_info |-> <<>>, part_name |-> "", part_dir |-> "",
     perm |-> <<>>, perm_ptr |-> NullPtr, merge |-> NoMerge,
     expected_size |-> 0, move_ttl_infos |-> EmptyTTLInfos,
     reserved |-> FALSE, new_data_part |-> <<>>,
     out |-> <<>>, projections |-> [calculated |-> <<>>, merges |-> <<>>],
     temp_part |-> EmptyTemporaryPart,
     exception |-> NoException, trace |-> <<>>]

Frame(input, caller) ==
    [pc |-> "idle", caller |-> caller, input |-> input, split |-> NoSplit, queue |-> <<>>,
     call |-> CallLocals, parts |-> <<>>]

\* the caller enters writeTempPart(block_with_partition, ...)
BeginCall(frame, bwp, rest) ==
    [frame EXCEPT !.pc = "prepare", !.queue = rest,
                  !.call = [CallLocals EXCEPT !.bwp_block = bwp.block,
                                              !.block = bwp.block,
                                              !.partition = bwp.partition]]

Throw(frame, exception, events) ==
    [frame EXCEPT !.pc = "failed", !.call.exception = exception,
                  !.call.trace = frame.call.trace \o events]

\* the scope guard of the directory lock: an exception that leaves writeTempPart
\* destroys temp_part and with it the holder
Unwind(holders, w, frame) ==
    IF frame.pc = "failed" THEN {h \in holders : h.holder # w} ELSE holders

Bump(counters, name, n) == [counters EXCEPT ![name] = counters[name] + n]

\* ------------------------------------------------------------ caller: insert
\* The sink: splitBlockIntoParts on the inserted block, then writeTempPart on
\* every sub-block in turn.
Insert(w) ==
    /\ wr[w].pc = "idle"
    /\ wr[w].caller = "sink"
    /\ LET r == splitBlockIntoParts(wr[w].input, settings.max_parts, metadata_snapshot)
           f == [wr[w] EXCEPT !.split = [called |-> TRUE, result |-> r.result,
                                         exception |-> r.exception,
                                         scatter |-> r.scatter]]
       IN  wr' = [wr EXCEPT ![w] =
                IF r.exception # NoException
                THEN [f EXCEPT !.pc = "failed"]
                ELSE IF r.result = <<>>
                THEN [f EXCEPT !.pc = "done"]
                ELSE BeginCall(f, Head(r.result), Tail(r.result))]
    /\ UNCHANGED <<config_vars, insert_increment, temporary_parts, disk, profile_events>>

\* A caller that hands writeTempPart a block of its own, paired with the
\* partition of its first row.
WriteTempPartCall(w) ==
    /\ wr[w].pc = "idle"
    /\ wr[w].caller = "direct"
    /\ wr[w].input # <<>>
    /\ wr' = [wr EXCEPT ![w] =
                BeginCall(wr[w],
                          [block |-> wr[w].input,
                           partition |-> PartitionTuple(metadata_snapshot.partition_key,
                                                        wr[w].input[1])],
                          <<>>)]
    /\ UNCHANGED <<config_vars, insert_increment, temporary_parts, disk, profile_events>>

\* ------------------------------------------------- writeTempPart, lines 285-322
\* temp index, min/max index, part info and part name
Prepare(w) ==
    /\ wr[w].pc = "prepare"
    /\ LET c == wr[w].call
           temp_index == IncrementGet(insert_increment)
           minmax_idx == MinMaxOnEntry(c.block, metadata_snapshot)
           new_part_info == NewPartInfo(getID(c.partition), temp_index)
           old_format == data.format_version < MinFormatVersionWithCustomPartitioning
           min_date == minmax_idx[data.minmax_idx_date_column_pos + 1].left
           max_date == minmax_idx[data.minmax_idx_date_column_pos + 1].right
           events == <<"insert_increment.get", "minmax_idx.update">>
           c1 == [c EXCEPT !.temp_index = temp_index,
                           !.increment_reads = c.increment_reads + 1,
                           !.minmax_idx = minmax_idx,
                           !.new_part_info = <<new_part_info>>]
           f == [wr[w] EXCEPT !.call = c1]
       IN  /\ insert_increment' = temp_index
           /\ wr' = [wr EXCEPT ![w] =
                IF old_format /\ SpansMonths(min_date, max_date)
                THEN Throw(f, "LOGICAL_ERROR", events)
                ELSE [f EXCEPT !.pc = "lock",
                               !.call.part_name =
                                    IF old_format
                                    THEN getPartNameV0(new_part_info, min_date, max_date)
                                    ELSE getPartName(new_part_info),
                               !.call.trace = c.trace \o events \o <<"part_name">>]]
    /\ UNCHANGED <<config_vars, temporary_parts, disk, profile_events>>

\* ------------------------------------------------- writeTempPart, lines 324-325
Lock(w) ==
    /\ wr[w].pc = "lock"
    /\ LET part_dir == TMP_PREFIX \o wr[w].call.part_name
       IN  /\ temporary_parts' = temporary_parts \cup {[dir |-> part_dir, holder |-> w]}
           /\ wr' = [wr EXCEPT ![w].pc = "sort",
                               ![w].call.part_dir = part_dir,
                               ![w].call.temp_part.temporary_directory_lock = <<part_dir>>,
                               ![w].call.trace = Append(@, "temporary_directory_lock")]
    /\ UNCHANGED <<config_vars, insert_increment, disk, profile_events>>

\* lines 341-353 without the test for a block that is already sorted
SortPlan_AlwaysPermute(block, sort_description) ==
    IF sort_description # <<>>
    THEN [perm |-> stableGetPermutation(block, sort_description), perm_ptr |-> PermPtr,
          already_sorted |-> FALSE]
    ELSE [perm |-> <<>>, perm_ptr |-> NullPtr, already_sorted |-> FALSE]

\* ------------------------------------------------- writeTempPart, lines 341-353
\* the permutation and the pointer to it: set only for a non-empty sort
\* description and a block that is not already sorted
SortPlan(block, sort_description) ==
    IF sort_description # <<>> /\ ~isAlreadySorted(block, sort_description)
    THEN [perm |-> stableGetPermutation(block, sort_description), perm_ptr |-> PermPtr,
          already_sorted |-> FALSE]
    ELSE [perm |-> <<>>, perm_ptr |-> NullPtr,
          already_sorted |-> sort_description # <<>>]

\* lines 356-357 with the setting not consulted
ReduceOnInsert_Always(optimize_on_insert, block, sort_description, plan, mode, status1, status2) ==
    mergeBlock(block, sort_description, plan.perm_ptr, plan.perm, mode, status1, status2)

\* lines 356-357: mergeBlock only under optimize_on_insert
ReduceOnInsert(optimize_on_insert, block, sort_description, plan, mode, status1, status2) ==
    IF optimize_on_insert
    THEN mergeBlock(block, sort_description, plan.perm_ptr, plan.perm, mode, status1, status2)
    ELSE MergeOutcome(block, plan.perm_ptr, NoException, FALSE, 0)

\* lines 327-357 with the reduction moved in front of the key expressions
SortReduceEvents_ReduceFirst(evaluate, sort_description, plan, optimize_on_insert) ==
    (IF optimize_on_insert THEN <<"mergeBlock">> ELSE <<>>)
    \o (IF evaluate THEN <<"evaluate_keys">> ELSE <<>>)
    \o (IF sort_description = <<>> THEN <<>>
        ELSE IF plan.already_sorted THEN <<"isAlreadySorted">>
        ELSE <<"stableGetPermutation">>)

\* lines 327-357: the calls made, in order: the key expressions (328-329), the
\* sort (345-353), the reduction (356-357)
SortReduceEvents(evaluate, sort_description, plan, optimize_on_insert) ==
    (IF evaluate THEN <<"evaluate_keys">> ELSE <<>>)
    \o (IF sort_description = <<>> THEN <<>>
        ELSE IF plan.already_sorted THEN <<"isAlreadySorted">>
        ELSE <<"stableGetPermutation">>)
    \o (IF optimize_on_insert THEN <<"mergeBlock">> ELSE <<>>)

\* lines 362-365 without the early return
ReturnsEarly_Never(expected_size) == FALSE

\* lines 362-365: if (expected_size == 0) return temp_part
ReturnsEarly(expected_size) == expected_size = 0

\* ------------------------------------------------- writeTempPart, lines 327-365
\* key expressions, sort, reduction, and the early return on an empty block
SortReduce(w) ==
    /\ wr[w].pc = "sort"
    /\ \E status1 \in algorithm_statuses.first, status2 \in algorithm_statuses.second :
       LET c == wr[w].call
           sort_description == metadata_snapshot.sorting_key
           evaluate == sort_description # <<>> \/ metadata_snapshot.secondary_indices
           plan == SortPlan(c.block, sort_description)
           m == ReduceOnInsert(settings.optimize_on_insert, c.block, sort_description,
                               plan, data.merging_params.mode, status1, status2)
           events == SortReduceEvents(evaluate, sort_description, plan,
                                      settings.optimize_on_insert)
           expected_size == bytes(m.block)
           c1 == [c EXCEPT !.perm = plan.perm,
                           !.perm_ptr = m.perm_ptr,
                           !.merge = [called |-> settings.optimize_on_insert,
                                      algorithm |-> m.algorithm,
                                      merge_calls |-> m.merge_calls,
                                      status1 |-> IF m.merge_calls >= 1 THEN status1
                                                  ELSE NotCalled,
                                      status2 |-> IF m.merge_calls >= 2 THEN status2
                                                  ELSE NotCalled]]
           f == [wr[w] EXCEPT !.call = c1]
       IN  /\ wr' = [wr EXCEPT ![w] =
                IF m.exception # NoException
                THEN Throw(f, m.exception, events)
                ELSE IF ReturnsEarly(expected_size)
                THEN [f EXCEPT !.pc = "returned",
                               !.call.block = m.block,
                               !.call.trace = c.trace \o events \o <<"return">>]
                ELSE [f EXCEPT !.pc = "reserve",
                               !.call.block = m.block,
                               !.call.expected_size = expected_size,
                               !.call.trace = c.trace \o events]]
           /\ profile_events' =
                Bump(Bump(profile_events, "Blocks", 1), "BlocksAlreadySorted",
                     IF plan.already_sorted THEN 1 ELSE 0)
           /\ temporary_parts' = Unwind(temporary_parts, w, wr'[w])
    /\ UNCHANGED <<config_vars, insert_increment, disk>>

\* lines 367-405 going on after a reservation that failed
ReserveOutcome_Ignored(frame, reserved, new_data_part) ==
    [frame EXCEPT !.pc = "directory",
                  !.call.reserved = reserved,
                  !.call.new_data_part = <<new_data_part>>,
                  !.call.trace = frame.call.trace \o <<"reserveSpace", "createPart">>]

\* lines 367-405: data.reserveSpace throws, or the part object is built
ReserveOutcome(frame, reserved, new_data_part) ==
    IF ~reserved
    THEN Throw(frame, "NOT_ENOUGH_SPACE", <<"reserveSpace">>)
    ELSE [frame EXCEPT !.pc = "directory",
                       !.call.reserved = TRUE,
                       !.call.new_data_part = <<new_data_part>>,
                       !.call.trace = frame.call.trace \o <<"reserveSpace", "createPart">>]

\* ------------------------------------------------- writeTempPart, lines 367-405
\* space reservation and the part object; reserved = FALSE: the reservation throws
Reserve(w) ==
    /\ wr[w].pc = "reserve"
    /\ \E reserved \in BOOLEAN :
       LET c == wr[w].call
           new_data_part ==
               [name |-> c.part_name, info |-> c.new_part_info[1],
                type |-> data.part_type, rows_count |-> Len(c.block),
                partition |-> c.partition, minmax_idx |-> c.minmax_idx,
                ttl_infos |-> EmptyTTLInfos,
                is_temp |-> TRUE, projection_parts |-> <<>>]
           moves == MoveTTLInfos(metadata_snapshot.ttl, c.block)
       IN  /\ wr' = [wr EXCEPT ![w] =
                IF moves.exception # NoException
                THEN Throw(wr[w], moves.exception, <<>>)
                ELSE ReserveOutcome([wr[w] EXCEPT !.call.move_ttl_infos = moves.ttl_infos],
                                    reserved, new_data_part)]
           /\ temporary_parts' = Unwind(temporary_parts, w, wr'[w])
    /\ UNCHANGED <<config_vars, insert_increment, disk, profile_events>>

\* IMergeTreeDataPart::isStoredOnDisk
isStoredOnDisk(type) == type # "InMemory"

\* exists() / removeRecursive() / createDirectories() on a part directory
\* (sub = "") or a projection directory inside it
MakeDirectory(d, dir, sub) ==
    LET exists == [dir |-> dir, sub |-> sub] \in d
        removed == IF ~exists THEN d
                   ELSE IF sub = "" THEN {e \in d : e.dir # dir}
                   ELSE d \ {[dir |-> dir, sub |-> sub]}
    IN  [disk |-> removed \cup {[dir |-> dir, sub |-> sub]},
         events |-> (IF exists THEN <<"removeRecursive">> ELSE <<>>)
                    \o <<"createDirectories">>]

\* ------------------------------------------------- writeTempPart, lines 407-426
Directory(w) ==
    /\ wr[w].pc = "directory"
    /\ LET c == wr[w].call
           made == MakeDirectory(disk, c.part_dir, "")
           stored == isStoredOnDisk(c.new_data_part[1].type)
       IN  /\ disk' = IF stored THEN made.disk ELSE disk
           /\ wr' = [wr EXCEPT ![w].pc = "write",
                               ![w].call.trace =
                                    IF stored THEN c.trace \o made.events ELSE c.trace]
    /\ UNCHANGED <<config_vars, insert_increment, temporary_parts, profile_events>>

\* ----------------------------------------------------- writeProjectionPartImpl
\* TemporaryPart::Stream: the serializer with what it was handed, and how often
\* its finalizer was finished
Stream(dir, sub, rows, permutation) ==
    [dir |-> dir, sub |-> sub, rows |-> rows, permutation |-> permutation, finished |-> 0]

\* ctx: part_dir and type of the parent part, and what the environment answers
\* (reserved; status1, status2 of the projection's merging algorithm).
\* acc: disk, events, profile_events so far.
\* lines 569-574
ProjectionReduce(projection, block, sort_description, plan, status1, status2) ==
    IF projection.type = "Aggregate"
    THEN mergeBlock(block, sort_description, plan.perm_ptr, plan.perm,
                    "Aggregating", status1, status2)
    ELSE MergeOutcome(block, plan.perm_ptr, NoException, FALSE, 0)

\* lines 576-600: serializer, write, finalizePartAsync, the returned TemporaryPart;
\* plan: the sort of lines 555-567, m: the outcome of lines 569-574
ProjectionSerialize(part_name, part_type, relative_path, is_temp, ctx, acc, plan, m) ==
    IF m.exception # NoException
    THEN [acc EXCEPT !.exception = m.exception]
    ELSE [acc EXCEPT
            !.events = acc.events \o <<"MergedBlockOutputStream:" \o part_name,
                                        "writeWithPermutation:" \o part_name,
                                        "finalizePartAsync:" \o part_name>>,
            !.profile_events = Bump(acc.profile_events, "ProjectionRows", Len(m.block)),
            !.temp_part =
                [part |-> <<[name |-> part_name,
                             info |-> MergeTreePartInfo("all", 0, 0, 0),
                             type |-> part_type, rows_count |-> 0, partition |-> <<>>,
                             minmax_idx |-> <<>>, is_temp |-> is_temp,
                             projection_parts |-> <<>>]>>,
                 builder |-> <<[dir |-> ctx.part_dir, sub |-> relative_path]>>,
                 streams |-> <<Stream(ctx.part_dir, relative_path,
                                      Permuted(m.block, m.perm_ptr, plan.perm),
                                      m.perm_ptr)>>,
                 temporary_directory_lock |-> <<>>]]

\* lines 541-574: key expressions, sort, and the reduction of an Aggregate projection
ProjectionSortReduce(part_name, part_type, relative_path, is_temp, block, projection, ctx, acc, plan, m) ==
    ProjectionSerialize(part_name, part_type, relative_path, is_temp, ctx,
        [acc EXCEPT
            !.events = acc.events
                \o <<"evaluate_keys:" \o part_name>>
                \o (IF plan.already_sorted THEN <<"isAlreadySorted:" \o part_name>>
                    ELSE <<"stableGetPermutation:" \o part_name>>)
                \o (IF projection.type = "Aggregate" THEN <<"mergeBlock:" \o part_name>>
                    ELSE <<>>),
            !.profile_events = Bump(Bump(acc.profile_events, "ProjectionBlocks", 1),
                                    "ProjectionBlocksAlreadySorted",
                                    IF plan.already_sorted THEN 1 ELSE 0),
            !.merges = Append(acc.merges,
                              [name |-> part_name, algorithm |-> m.algorithm,
                               input |-> block, output |-> m.block])],
        plan, m)

\* lines 508-539: part object and directory of the projection part
ProjectionDirectory(part_name, part_type, relative_path, acc, made) ==
    [acc EXCEPT
        !.disk = IF isStoredOnDisk(part_type) THEN made.disk ELSE acc.disk,
        !.events = acc.events \o <<"createPart:" \o part_name>>
            \o (IF isStoredOnDisk(part_type)
                THEN [e \in 1..Len(made.events) |-> made.events[e] \o ":" \o relative_path]
                ELSE <<>>)]

ProjectionPlanned(part_name, part_type, relative_path, is_temp, block, projection, ctx, acc, plan) ==
    ProjectionSortReduce(part_name, part_type, relative_path, is_temp, block, projection,
        ctx, acc, plan,
        ProjectionReduce(projection, block, ProjectionSortingKey(projection), plan,
                         ctx.status1, ctx.status2))

writeProjectionPartImpl(part_name, part_type, relative_path, is_temp, block, projection, ctx, acc) ==
    ProjectionPlanned(part_name, part_type, relative_path, is_temp, block, projection, ctx,
        ProjectionDirectory(part_name, part_type, relative_path, acc,
                            MakeDirectory(acc.disk, ctx.part_dir, relative_path)),
        SortPlan(block, ProjectionSortingKey(projection)))

\* ---------------------------------------------------------- writeProjectionPart
\* lines 603-637 with the relative path of writeTempProjectionPart
writeProjectionPart_TmpProj(block, projection, ctx, acc) ==
    IF ctx.parent_type = "InMemory"
    THEN writeProjectionPartImpl(projection.name, "InMemory", projection.name \o ".tmp_proj",
                                 FALSE, block, projection, ctx, acc)
    ELSE IF ~ctx.reserved
    THEN [acc EXCEPT !.exception = "NOT_ENOUGH_SPACE",
                     !.events = Append(acc.events, "reserveSpace:" \o projection.name)]
    ELSE writeProjectionPartImpl(
            projection.name, "Wide", projection.name \o ".tmp_proj", FALSE, block, projection,
            ctx, [acc EXCEPT !.events = Append(acc.events, "reserveSpace:" \o projection.name)])

writeProjectionPart(block, projection, ctx, acc) ==
    IF ctx.parent_type = "InMemory"
    THEN writeProjectionPartImpl(projection.name, "InMemory", projection.name \o ".proj",
                                 FALSE, block, projection, ctx, acc)
    ELSE IF ~ctx.reserved
    THEN \* data.reserveSpace throws
         [acc EXCEPT !.exception = "NOT_ENOUGH_SPACE",
                     !.events = Append(acc.events, "reserveSpace:" \o projection.name)]
    ELSE writeProjectionPartImpl(
            projection.name, "Wide", projection.name \o ".proj", FALSE, block, projection,
            ctx, [acc EXCEPT !.events = Append(acc.events, "reserveSpace:" \o projection.name)])

\* ------------------------------------------------- writeTempPart, lines 457-468
\* lines 463-466 without the move of the projection's streams
AddProjectionPart_StreamsLeft(projection, written) ==
    IF written.exception # NoException THEN written
    ELSE [written EXCEPT
            !.projection_parts = Append(written.projection_parts, written.temp_part.part[1]),
            !.events = written.events \o <<"addProjectionPart:" \o projection.name,
                                           "commit:" \o projection.name>>]

\* lines 463-466: the parent records the projection part and takes its streams
AddProjectionPart(projection, written) ==
    IF written.exception # NoException THEN written
    ELSE [written EXCEPT
            !.projection_parts = Append(written.projection_parts, written.temp_part.part[1]),
            !.events = written.events \o <<"addProjectionPart:" \o projection.name,
                                           "commit:" \o projection.name>>,
            !.streams = written.streams \o written.temp_part.streams]

\* lines 459-460: the projection block, and nothing more when it has no rows
ProjectionCalculated(projection, projection_block, block, ctx, acc) ==
    IF projection_block = <<>> THEN acc
    ELSE AddProjectionPart(projection,
                           writeProjectionPart(projection_block, projection, ctx, acc))

ProjectionStep(projection, block, ctx, acc) ==
    ProjectionCalculated(projection, calculate(projection, block), block, ctx,
        [acc EXCEPT !.events = Append(acc.events, "calculate:" \o projection.name),
                    !.calculated = Append(acc.calculated,
                        [name |-> projection.name, from |-> block]),
                    !.temp_part = EmptyTemporaryPart])

RECURSIVE ProjectionLoop(_, _, _, _, _)
ProjectionLoop(projections, i, block, ctx, acc) ==
    IF i > Len(projections) \/ acc.exception # NoException THEN acc
    ELSE ProjectionLoop(projections, i + 1, block, ctx,
                        ProjectionStep(projections[i], block, ctx, acc))

\* ------------------------------------------------- writeTempPart, lines 428-483
\* TTL infos, serializer, write of the main block, projections,
\* finalizePartAsync, return
WriteAndFinalize(w) ==
    /\ wr[w].pc = "write"
    /\ \E reserved \in BOOLEAN, status1 \in algorithm_statuses.first,
          status2 \in algorithm_statuses.second :
       LET c == wr[w].call
           out == Stream(c.part_dir, "", Permuted(c.block, c.perm_ptr, c.perm), c.perm_ptr)
           ctx == [part_dir |-> c.part_dir, parent_type |-> c.new_data_part[1].type,
                   reserved |-> reserved, status1 |-> status1, status2 |-> status2]
           acc == ProjectionLoop(metadata_snapshot.projections, 1, c.block, ctx,
                    [disk |-> disk, profile_events |-> profile_events,
                     events |-> <<"MergedBlockOutputStream", "writeWithPermutation">>,
                     exception |-> NoException, temp_part |-> EmptyTemporaryPart,
                     streams |-> <<>>, projection_parts |-> <<>>,
                     calculated |-> <<>>, merges |-> <<>>])
           ttls == PartTTLInfos(metadata_snapshot.ttl, c.move_ttl_infos, c.block)
           new_data_part == [c.new_data_part[1] EXCEPT
                                !.ttl_infos = ttls.ttl_infos,
                                !.projection_parts = acc.projection_parts]
           c1 == [c EXCEPT !.out = <<out>>,
                           !.projections = [calculated |-> acc.calculated,
                                            merges |-> acc.merges]]
           f == [wr[w] EXCEPT !.call = c1]
       IN  /\ disk' = IF ttls.exception # NoException THEN disk ELSE acc.disk
           /\ wr' = [wr EXCEPT ![w] =
                IF ttls.exception # NoException
                THEN Throw(wr[w], ttls.exception, <<>>)
                ELSE IF acc.exception # NoException
                THEN Throw(f, acc.exception, acc.events)
                ELSE [f EXCEPT
                        !.pc = "returned",
                        !.call.new_data_part = <<new_data_part>>,
                        !.call.temp_part =
                            [part |-> <<new_data_part>>,
                             builder |-> <<[dir |-> c.part_dir, sub |-> ""]>>,
                             streams |-> Append(acc.streams, out),
                             temporary_directory_lock |->
                                c.temp_part.temporary_directory_lock],
                        !.call.trace = c.trace \o acc.events
                                       \o <<"finalizePartAsync", "return">>]]
           /\ profile_events' =
                IF ttls.exception # NoException THEN profile_events
                ELSE IF acc.exception # NoException THEN acc.profile_events
                ELSE Bump(acc.profile_events, "Rows", Len(c.block))
           /\ temporary_parts' = Unwind(temporary_parts, w, wr'[w])
    /\ UNCHANGED <<config_vars, insert_increment>>

\* ------------------------------------------------------ TemporaryPart::finalize
finalize(temp_part) ==
    [temp_part EXCEPT
        !.streams = [i \in 1..Len(temp_part.streams) |->
                        [temp_part.streams[i] EXCEPT !.finished = @ + 1]]]

\* The caller finalizes the returned part, keeps it, and goes on with the next
\* sub-block of the insert.
Finalize(w) ==
    /\ wr[w].pc = "returned"
    /\ LET f == [wr[w] EXCEPT !.parts = Append(@, finalize(wr[w].call.temp_part))]
       IN  wr' = [wr EXCEPT ![w] =
                IF f.queue # <<>>
                THEN BeginCall(f, Head(f.queue), Tail(f.queue))
                ELSE [f EXCEPT !.pc = "done",
                               !.call.temp_part = finalize(wr[w].call.temp_part)]]
    /\ UNCHANGED <<config_vars, insert_increment, temporary_parts, disk, profile_events>>

Next ==
    \/ \E w \in DOMAIN wr : Insert(w)
    \/ \E w \in DOMAIN wr : WriteTempPartCall(w)
    \/ \E w \in DOMAIN wr : Prepare(w)
    \/ \E w \in DOMAIN wr : Lock(w)
    \/ \E w \in DOMAIN wr : SortReduce(w)
    \/ \E w \in DOMAIN wr : Reserve(w)
    \/ \E w \in DOMAIN wr : Directory(w)
    \/ \E w \in DOMAIN wr : WriteAndFinalize(w)
    \/ \E w \in DOMAIN wr : Finalize(w)

\* --------------------------------------------------------------- initial states
Row(a, k, v) == [a |-> a, k |-> k, v |-> v]

ProfileZero ==
    [Blocks |-> 0, BlocksAlreadySorted |-> 0, Rows |-> 0,
     ProjectionBlocks |-> 0, ProjectionBlocksAlreadySorted |-> 0, ProjectionRows |-> 0]

\* a table without TTL
NoTTL ==
    [rows |-> <<>>, group_by |-> <<>>, rows_where |-> <<>>, columns |-> <<>>,
     recompression |-> <<>>, move |-> <<>>]

Metadata(partition_key, sorting_key, projections) ==
    [partition_key |-> partition_key, sorting_key |-> sorting_key,
     secondary_indices |-> FALSE, projections |-> projections, ttl |-> NoTTL]

Data(format_version, mode, part_type) ==
    [format_version |-> format_version, merging_params |-> [mode |-> mode],
     part_type |-> part_type, minmax_idx_date_column_pos |-> 0]

Settings(optimize_on_insert, max_parts) ==
    [optimize_on_insert |-> optimize_on_insert, max_parts |-> max_parts]

TwoProjections ==
    <<[name |-> "p_norm", type |-> "Normal", where |-> ""],
      [name |-> "p_agg", type |-> "Aggregate", where |-> ""]>>

\* the middle projection selects nothing from a block without a positive v
ThreeProjections ==
    <<[name |-> "p_norm", type |-> "Normal", where |-> ""],
      [name |-> "p_pos", type |-> "Normal", where |-> "v > 0"],
      [name |-> "p_agg", type |-> "Aggregate", where |-> ""]>>

FreshProcess ==
    /\ insert_increment = 0
    /\ temporary_parts = {}
    /\ profile_events = ProfileZero

\* ---- inserts into partitioned tables: every partition key, every limit
RowsSplit == {Row(a, a, 1) : a \in 0..MaxA}

PartitionKeys ==
    {<<>>, <<"a">>, <<"a % 2">>, <<"intDiv(a, 2)">>, <<"a % 2", "k">>}

InitSplit ==
    /\ FreshProcess
    /\ disk = {}
    /\ algorithm_statuses = ProtocolStatuses
    /\ metadata_snapshot \in {Metadata(pk, <<"k">>, <<>>) : pk \in PartitionKeys}
    /\ data = Data(1, "Ordinary", "Wide")
    /\ settings \in {Settings(FALSE, n) : n \in 0..MaxPartsSetting}
    /\ wr \in {[w \in {1} |-> Frame(b, caller)] :
                b \in SeqsUpTo(RowsSplit, MaxSplitRows) \cup {<<>>},
                caller \in IF settings.max_parts = 0 THEN {"sink", "direct"} ELSE {"sink"}}

SpecSplit == InitSplit /\ [][Next]_vars

\* ---- one writer, every merging mode, projections, in-memory parts, stale directory
RowsWrite == {Row(0, 0, 1), Row(1, 0, 0 - 1), Row(1, 1, 1), Row(0, 1, 1)}

WriteConfig(mode, optimize, sorting_key, projections, part_type, stale) ==
    [mode |-> mode, optimize |-> optimize, sorting_key |-> sorting_key,
     projections |-> projections, part_type |-> part_type, stale |-> stale]

WriteConfigs ==
    {WriteConfig(mode, TRUE, <<"k">>, <<>>, "Wide", FALSE) : mode \in MergingModes}
    \cup {WriteConfig(mode, FALSE, <<"k">>, <<>>, "Wide", FALSE) :
            mode \in {"Ordinary", "Replacing"}}
    \cup {WriteConfig("Ordinary", optimize, <<"k">>, TwoProjections, "Wide", FALSE) :
            optimize \in BOOLEAN}
    \cup {WriteConfig("Replacing", optimize, <<"k">>, TwoProjections, "Wide", FALSE) :
            optimize \in BOOLEAN}
    \cup {WriteConfig("Replacing", TRUE, <<>>, <<>>, "Wide", FALSE),
          WriteConfig("Ordinary", FALSE, <<>>, <<>>, "Wide", FALSE),
          WriteConfig("Ordinary", FALSE, <<"k">>, ThreeProjections, "Wide", FALSE),
          WriteConfig("Ordinary", FALSE, <<"k">>, TwoProjections, "InMemory", FALSE),
          WriteConfig("Ordinary", FALSE, <<"k">>, TwoProjections, "Wide", TRUE)}

StaleDirectories ==
    {[dir |-> "tmp_insert_0_1_1_0", sub |-> ""],
     [dir |-> "tmp_insert_0_1_1_0", sub |-> "p_norm.proj"]}

InitWrite ==
    /\ FreshProcess
    /\ algorithm_statuses = AnyStatuses
    /\ \E cfg \in WriteConfigs :
        /\ metadata_snapshot = Metadata(<<"intDiv(a, 2)">>, cfg.sorting_key, cfg.projections)
        /\ data = Data(1, cfg.mode, cfg.part_type)
        /\ settings = Settings(cfg.optimize, 0)
        /\ disk = IF cfg.stale THEN StaleDirectories ELSE {}
    /\ wr \in {[w \in {1} |-> Frame(b, caller)] :
                b \in SeqsUpTo(RowsWrite, MaxRows), caller \in {"sink", "direct"}}

SpecWrite == InitWrite /\ [][Next]_vars

\* ---- one writer, tables with TTL entries of every category
TTLEntry(name, column, plus, type) ==
    [name |-> name, result_column |-> column \o " + " \o ToString(plus) \o ":" \o type,
     column |-> column, plus |-> plus, type |-> type]

\* the times of the move TTL lie before, those of the recompression TTL after
\* the times of the four other categories
AllTTL ==
    [rows |-> <<TTLEntry("", "k", 10, "UInt32")>>,
     group_by |-> <<TTLEntry("", "a", 1, "UInt16")>>,
     rows_where |-> <<TTLEntry("", "", 12, "Const(UInt32)")>>,
     columns |-> <<TTLEntry("v", "v", 20, "UInt32"), TTLEntry("k", "", 1, "Const(UInt16)")>>,
     recompression |-> <<TTLEntry("", "k", 500000, "UInt32")>>,
     move |-> <<TTLEntry("", "a", 1, "UInt32")>>]

TTLConfigs ==
    {NoTTL, AllTTL,
     [NoTTL EXCEPT !.recompression = AllTTL.recompression, !.move = AllTTL.move],
     [NoTTL EXCEPT !.columns = AllTTL.columns],
     [AllTTL EXCEPT !.move = <<TTLEntry("", "a", 1, "String")>>],
     [AllTTL EXCEPT !.group_by = <<TTLEntry("", "a", 1, "Const(String)")>>]}

InitTTL ==
    /\ FreshProcess
    /\ disk = {}
    /\ algorithm_statuses = ProtocolStatuses
    /\ metadata_snapshot \in
            {[Metadata(<<"intDiv(a, 2)">>, <<"k">>, <<>>) EXCEPT !.ttl = ttl] :
                ttl \in TTLConfigs}
    /\ data \in {Data(1, mode, "Wide") : mode \in {"Ordinary", "Replacing"}}
    /\ settings = Settings(TRUE, 0)
    /\ wr \in {[w \in {1} |-> Frame(b, caller)] :
                b \in SeqsUpTo(RowsWrite, MaxRows), caller \in {"sink", "direct"}}

SpecTTL == InitTTL /\ [][Next]_vars

\* ---- concurrent writers of one process: thread 1 inserts through the sink, the
\* others call writeTempPart; a block of two rows collapses to nothing
MaxWriters == 2

BlocksConc == {<<Row(0, 0, 1)>>, <<Row(0, 0, 1), Row(0, 0, 0 - 1)>>}

InitConc ==
    /\ FreshProcess
    /\ disk = {}
    /\ algorithm_statuses = ProtocolStatuses
    /\ metadata_snapshot \in {Metadata(pk, <<"k">>, <<>>) : pk \in {<<>>, <<"a">>}}
    /\ data = Data(1, "Collapsing", "Wide")
    /\ settings = Settings(TRUE, 0)
    /\ wr \in {f \in [1..MaxWriters -> {Frame(b, caller) : b \in BlocksConc,
                                                          caller \in {"sink", "direct"}}] :
                \A w \in 1..MaxWriters : f[w].caller = "sink" <=> w = 1}

SpecConc == InitConc /\ [][Next]_vars

\* ---- tables of the format without custom partitioning: partitioned by month
\* of the Date column a
V0Days == {0, 30, 31, 58, 365, 395}

InitV0 ==
    /\ FreshProcess
    /\ disk = {}
    /\ algorithm_statuses = ProtocolStatuses
    /\ metadata_snapshot = Metadata(<<"toYYYYMM(a)">>, <<"k">>, <<>>)
    /\ data = Data(0, "Ordinary", "Wide")
    /\ settings = Settings(FALSE, 0)
    /\ wr \in {[w \in {1} |-> Frame(b, caller)] :
                b \in SeqsUpTo({Row(d, 0, 1) : d \in V0Days}, MaxRows),
                caller \in {"sink", "direct"}}

SpecV0 == InitV0 /\ [][Next]_vars

\* ========================================================================
\* Properties of splitBlockIntoParts (SpecSplit)
\* ========================================================================
\* the inserts whose split has returned / thrown
SplitReturned(w) ==
    /\ wr[w].split.called
    /\ wr[w].split.exception = NoException
    /\ wr[w].input # <<>>

SubBlocks(w) == [p \in 1..Len(wr[w].split.result) |-> wr[w].split.result[p].block]

\* the partition tuples of the rows 0..i-1 of a block
TuplesOfPrefix(partition_key, block, i) ==
    {PartitionTuple(partition_key, block[n]) : n \in 1..i}

\* C1: for a non-empty block and any partition key, the returned sub-blocks hold
\* exactly the rows of the block as a multiset; every row of a sub-block
\* evaluates to the partition tuple paired with the sub-block; rows with equal
\* tuples are in one sub-block (no two sub-blocks carry the same tuple).
C1_SplitPartitionsTheBlock ==
    \A w \in DOMAIN wr :
        SplitReturned(w) =>
            LET B == wr[w].input
                K == metadata_snapshot.partition_key
                res == wr[w].split.result
                all == Concat(SubBlocks(w))
            IN  /\ Len(all) = Len(B)
                /\ \A r \in Range(B) \cup Range(all) : Count(all, r) = Count(B, r)
                /\ \A p \in 1..Len(res) :
                    /\ res[p].block # <<>>
                    /\ \A i \in 1..Len(res[p].block) :
                        PartitionTuple(K, res[p].block[i]) = res[p].partition
                /\ \A p, q \in 1..Len(res) :
                    p # q => res[p].partition # res[q].partition

\* C1 witness: a block was split into several sub-blocks, one of them with
\* more than one row, and the rows of the block were interleaved
C1_Witness ==
    \E w \in DOMAIN wr :
        /\ SplitReturned(w)
        /\ Len(wr[w].split.result) >= 2
        /\ \E p \in 1..Len(wr[w].split.result) : Len(wr[w].split.result[p].block) >= 2
        /\ Concat(SubBlocks(w)) # wr[w].input

\* C2: with max_parts > 0 the split throws TOO_MANY_PARTS exactly when the block
\* has more than max_parts distinct partition tuples, while scanning the row
\* that shows the (max_parts+1)-th distinct tuple, the rows after it never
\* examined; with max_parts = 0 it never throws; after the throw no sub-block
\* is returned and no step of writeTempPart has happened.
C2_TooManyPartsWhenDiscovered ==
    \A w \in DOMAIN wr :
        (wr[w].split.called /\ wr[w].input # <<>>) =>
            LET B == wr[w].input
                K == metadata_snapshot.partition_key
                max_parts == settings.max_parts
                thrown == wr[w].split.exception = "TOO_MANY_PARTS"
                distinct == Cardinality(TuplesOfPrefix(K, B, Len(B)))
                examined == wr[w].split.scatter.rows_examined
            IN  /\ thrown <=> (max_parts > 0 /\ distinct > max_parts)
                /\ wr[w].split.exception \in {NoException, "TOO_MANY_PARTS"}
                /\ thrown =>
                    /\ examined \in 1..Len(B)
                    /\ Cardinality(TuplesOfPrefix(K, B, examined)) = max_parts + 1
                    /\ Cardinality(TuplesOfPrefix(K, B, examined - 1)) = max_parts
                    /\ wr[w].split.result = <<>>
                    /\ wr[w].pc = "failed"
                    /\ wr[w].call = CallLocals
                    /\ wr[w].parts = <<>>
                    /\ insert_increment = 0
                    /\ temporary_parts = {}
                    /\ disk = {}

\* C2 witness: the limit is 2, the third distinct tuple shows up before the last
\* row of the block and the split throws there
C2_Witness ==
    \E w \in DOMAIN wr :
        /\ wr[w].split.exception = "TOO_MANY_PARTS"
        /\ settings.max_parts = 2
        /\ wr[w].split.scatter.rows_examined < Len(wr[w].input)

\* ========================================================================
\* Properties of writeTempPart (SpecWrite)
\* ========================================================================
\* the call of thread w has returned a part that is not empty
ReturnedPart(w) ==
    /\ wr[w].pc = "returned"
    /\ wr[w].call.temp_part.part # <<>>

\* idx holds, per min/max column, exactly the least and the greatest value of
\* that column over the rows
CoversExactly(idx, rows, column_names) ==
    /\ Len(idx) = Len(column_names)
    /\ \A j \in 1..Len(column_names) :
        /\ \A i \in 1..Len(rows) :
            /\ idx[j].left <= rows[i][column_names[j]]
            /\ rows[i][column_names[j]] <= idx[j].right
        /\ \E i \in 1..Len(rows) : rows[i][column_names[j]] = idx[j].left
        /\ \E i \in 1..Len(rows) : rows[i][column_names[j]] = idx[j].right

\* the rows the serializer of the main part was handed
RowsWritten(w) == wr[w].call.out[1].rows

\* C3 as stated: the MinMaxIndex of a returned non-empty part holds the minimum
\* and maximum over the rows after reduction (the rows handed to the serializer)
C3_MinMaxOverWrittenRows ==
    \A w \in DOMAIN wr :
        ReturnedPart(w) =>
            CoversExactly(wr[w].call.temp_part.part[1].minmax_idx, RowsWritten(w),
                          getMinMaxColumnsNames(metadata_snapshot.partition_key))

\* C3 amended: the MinMaxIndex of a returned non-empty part holds the minimum
\* and maximum over the rows of the block as it was passed to writeTempPart,
\* before sorting and reduction
C3_MinMaxOverInputRows ==
    \A w \in DOMAIN wr :
        ReturnedPart(w) =>
            CoversExactly(wr[w].call.temp_part.part[1].minmax_idx, wr[w].call.bwp_block,
                          getMinMaxColumnsNames(metadata_snapshot.partition_key))

\* C3 witness: a part was returned whose reduction dropped the row with the
\* greatest or least value, so the index is wider than the rows written
C3_Witness ==
    \E w \in DOMAIN wr :
        /\ ReturnedPart(w)
        /\ wr[w].call.merge.algorithm
        /\ Len(RowsWritten(w)) < Len(wr[w].call.bwp_block)
        /\ ~CoversExactly(wr[w].call.temp_part.part[1].minmax_idx, RowsWritten(w),
                          getMinMaxColumnsNames(metadata_snapshot.partition_key))

\* ---- helpers on the record of calls a writeTempPart call has made
Has(trace, event) == \E i \in 1..Len(trace) : trace[i] = event

HasAny(trace, events) == \E i \in 1..Len(trace) : trace[i] \in events

\* every occurrence of an event of `later` has an occurrence of `earlier` before it
Precedes(trace, earlier, later) ==
    \A i \in 1..Len(trace) :
        trace[i] \in later => \E j \in 1..(i - 1) : trace[j] = earlier

SameRows(x, y) ==
    /\ Len(x) = Len(y)
    /\ \A r \in Range(x) \cup Range(y) : Count(x, r) = Count(y, r)

DirectoryEvents == {"removeRecursive", "createDirectories"}
SerializerEvents == {"MergedBlockOutputStream", "writeWithPermutation", "finalizePartAsync"}
KeySortReduceEvents ==
    {"evaluate_keys", "isAlreadySorted", "stableGetPermutation", "mergeBlock"}

\* no event of a projection write: those carry the projection's name
NoProjectionEvent(trace) ==
    \A i \in 1..Len(trace) :
        trace[i] \in {"insert_increment.get", "minmax_idx.update", "part_name",
                      "temporary_directory_lock", "reserveSpace", "createPart", "return"}
                     \cup DirectoryEvents \cup SerializerEvents \cup KeySortReduceEvents

\* the call returned through the early return: the block had rows on entry and
\* has none after the reduction
ReturnedEmpty(w) ==
    /\ wr[w].pc = "returned"
    /\ wr[w].call.bwp_block # <<>>
    /\ wr[w].call.block = <<>>

\* C4: when the block is empty after reduction the call returns, without an
\* exception, a TemporaryPart with no part, no builder and no streams; it has
\* reserved no space, removed or created no directory, opened no serializer
\* and written no projection, and its directory does not exist on disk.
C4_EmptyAfterReductionReturnsEmptyPart ==
    \A w \in DOMAIN wr :
        (wr[w].pc \in {"reserve", "directory", "write", "returned"}
            /\ wr[w].call.block = <<>>) =>
            LET c == wr[w].call
            IN  /\ wr[w].pc = "returned"
                /\ c.exception = NoException
                /\ c.temp_part.part = <<>>
                /\ c.temp_part.builder = <<>>
                /\ c.temp_part.streams = <<>>
                /\ ~c.reserved
                /\ c.new_data_part = <<>>
                /\ c.out = <<>>
                /\ c.projections.calculated = <<>>
                /\ ~HasAny(c.trace, {"reserveSpace", "createPart"} \cup DirectoryEvents
                                      \cup SerializerEvents)
                /\ NoProjectionEvent(c.trace)
                /\ \A e \in disk : e.dir # c.part_dir

\* C4 witness: a block with rows whose reduction left no row, returned
C4_Witness ==
    \E w \in DOMAIN wr :
        /\ ReturnedEmpty(w)
        /\ wr[w].call.merge.merge_calls = 2
        /\ Len(wr[w].call.bwp_block) >= 2

\* the two statuses follow the protocol: the first asks for input 0 and is not
\* finished, the second is finished
Conforming(merge) ==
    /\ merge.merge_calls >= 1
    /\ merge.status1.required_source = 0
    /\ ~merge.status1.is_finished
    /\ merge.merge_calls = 2 => merge.status2.is_finished

ProjectionType(name) ==
    (CHOOSE p \in Range(metadata_snapshot.projections) : p.name = name).type

\* C6 as stated: with optimize_on_insert disabled no merging algorithm is run
\* in the write of a main part or of a projection part, and the serializer is
\* handed all rows of the input block.
C6_NoReductionWithoutOptimizeOnInsert ==
    \A w \in DOMAIN wr :
        ~settings.optimize_on_insert =>
            LET c == wr[w].call
            IN  /\ ~c.merge.algorithm
                /\ c.out # <<>> => SameRows(RowsWritten(w), c.bwp_block)
                /\ \A i \in 1..Len(c.projections.merges) :
                    /\ ~c.projections.merges[i].algorithm
                    /\ SameRows(c.projections.merges[i].output,
                                c.projections.merges[i].input)

\* C6 amended: a main part is reduced only under optimize_on_insert: without it
\* no merging algorithm is run and the serializer is handed all rows of the
\* input block.  A projection part is reduced exactly when the projection is
\* of type Aggregate, whatever optimize_on_insert says; a projection part of
\* type Normal is handed to its serializer with all its rows.
C6_MainReducedOnlyOnOptimizeProjectionByType ==
    \A w \in DOMAIN wr :
        LET c == wr[w].call
        IN  /\ c.merge.algorithm => settings.optimize_on_insert
            /\ ~settings.optimize_on_insert =>
                /\ c.merge.merge_calls = 0
                /\ c.out # <<>> => SameRows(RowsWritten(w), c.bwp_block)
            /\ \A i \in 1..Len(c.projections.merges) :
                LET m == c.projections.merges[i]
                IN  /\ m.algorithm <=> ProjectionType(m.name) = "Aggregate"
                    /\ ~m.algorithm => SameRows(m.output, m.input)

\* C6 witness: optimize_on_insert is off and the table is Replacing; the main
\* block was written with rows the reducer would have dropped, and the
\* Aggregate projection of the same insert was reduced
C6_Witness ==
    \E w \in DOMAIN wr :
        /\ ~settings.optimize_on_insert
        /\ wr[w].pc = "returned"
        /\ data.merging_params.mode = "Replacing"
        /\ Len(MergedChunk("Replacing", RowsWritten(w), <<"k">>)) < Len(RowsWritten(w))
        /\ \E i \in 1..Len(wr[w].call.projections.merges) :
            wr[w].call.projections.merges[i].algorithm

\* the place of a call in the order of the statements of writeTempPart
StepRank(event) ==
    CASE event = "insert_increment.get"     -> 1
      [] event = "minmax_idx.update"        -> 2
      [] event = "part_name"                -> 3
      [] event = "temporary_directory_lock" -> 4
      [] event = "evaluate_keys"            -> 5
      [] event \in {"isAlreadySorted", "stableGetPermutation"} -> 6
      [] event = "mergeBlock"               -> 7
      [] event = "reserveSpace"             -> 8
      [] event = "createPart"               -> 9
      [] event = "removeRecursive"          -> 10
      [] event = "createDirectories"        -> 11
      [] event = "MergedBlockOutputStream"  -> 12
      [] event = "writeWithPermutation"     -> 13
      [] OTHER                              -> 0

\* C7 as stated: the lock on the temporary directory is taken and the empty
\* temporary directory is created before the key expressions are evaluated
\* and before the block is sorted or reduced.
C7_DirectoryCreatedBeforeKeysSortReduce ==
    \A w \in DOMAIN wr :
        /\ Precedes(wr[w].call.trace, "temporary_directory_lock", KeySortReduceEvents)
        /\ Precedes(wr[w].call.trace, "createDirectories", KeySortReduceEvents)

\* C7 amended: the steps of a call happen in the order Prepare (temp index,
\* min/max index, part name), lock on the temporary directory, key
\* expressions, sort, reduction, space reservation, creation of the part
\* object, and only then removal of a stale directory and creation of the
\* empty temporary directory, followed by the serializer.  The lock is taken
\* before the key expressions are evaluated; the directory is created after
\* the reduction and the reservation, and only for a block that still has rows
\* and a part stored on disk.
C7_LockBeforeKeysDirectoryAfterReserve ==
    \A w \in DOMAIN wr :
        LET t == wr[w].call.trace
        IN  /\ \A i, j \in 1..Len(t) :
                (i < j /\ StepRank(t[i]) > 0 /\ StepRank(t[j]) > 0) =>
                    StepRank(t[i]) < StepRank(t[j])
            /\ Precedes(t, "temporary_directory_lock",
                        KeySortReduceEvents \cup {"reserveSpace"} \cup DirectoryEvents)
            /\ Precedes(t, "part_name", {"temporary_directory_lock"})
            /\ Precedes(t, "reserveSpace", DirectoryEvents)
            /\ Has(t, "createDirectories") =>
                /\ wr[w].call.block # <<>>
                /\ isStoredOnDisk(data.part_type)
                /\ [dir |-> wr[w].call.part_dir, sub |-> ""] \in disk

\* C7 witness: a call that evaluated the keys, sorted and reduced its block
\* while its directory did not exist, and created the directory afterwards
C7_Witness ==
    \E w \in DOMAIN wr :
        LET t == wr[w].call.trace
        IN  /\ Has(t, "evaluate_keys")
            /\ Has(t, "stableGetPermutation")
            /\ Has(t, "mergeBlock")
            /\ Has(t, "createDirectories")
            /\ wr[w].pc = "write"

\* the reservation of space for the main part has thrown
MainReservationFailed(w) ==
    /\ Has(wr[w].call.trace, "reserveSpace")
    /\ ~wr[w].call.reserved

\* C8: when the reservation of space for the main part fails, the call ends
\* with that error, has removed and created no directory, has opened no
\* serializer and returns no part.
C8_ReservationFailureWritesNothing ==
    \A w \in DOMAIN wr :
        MainReservationFailed(w) =>
            LET c == wr[w].call
            IN  /\ wr[w].pc = "failed"
                /\ c.exception = "NOT_ENOUGH_SPACE"
                /\ c.trace[Len(c.trace)] = "reserveSpace"
                /\ ~HasAny(c.trace, DirectoryEvents \cup SerializerEvents \cup {"createPart"})
                /\ NoProjectionEvent(c.trace)
                /\ c.new_data_part = <<>>
                /\ c.out = <<>>
                /\ c.temp_part.part = <<>>
                /\ c.temp_part.streams = <<>>
                /\ wr[w].parts = <<>>
                /\ disk \in {{}, StaleDirectories}
                /\ \A h \in temporary_parts : h.holder # w

\* C8 witness: the reservation failed for a reduced block that still has rows
C8_Witness ==
    \E w \in DOMAIN wr :
        /\ MainReservationFailed(w)
        /\ wr[w].call.block # <<>>
        /\ Has(wr[w].call.trace, "mergeBlock")

\* ========================================================================
\* Properties of concurrent calls (SpecConc)
\* ========================================================================
\* the call of thread w has passed lines 285-322
Named(w) == wr[w].pc \notin {"idle", "prepare"}

\* C9: every call reads insert_increment exactly once, also a call that later
\* fails or returns an empty part; any two calls hold distinct temp indexes;
\* the part info of a call has min block = max block = temp_index and level
\* 0; the part names, the directory names tmp_insert_<part_name> and the
\* directory locks of any two calls differ.
C9_DistinctTempDirectories ==
    /\ \A w \in DOMAIN wr :
        LET c == wr[w].call
        IN  /\ c.increment_reads <= 1
            /\ Named(w) =>
                /\ c.increment_reads = 1
                /\ c.temp_index \in 1..insert_increment
                /\ c.new_part_info[1].min_block = c.temp_index
                /\ c.new_part_info[1].max_block = c.temp_index
                /\ c.new_part_info[1].level = 0
            /\ c.part_dir # "" => c.part_dir = "tmp_insert_" \o c.part_name
    /\ \A w1, w2 \in DOMAIN wr :
        (w1 # w2 /\ Named(w1) /\ Named(w2)) =>
            /\ wr[w1].call.temp_index # wr[w2].call.temp_index
            /\ wr[w1].call.part_name # wr[w2].call.part_name
            /\ (wr[w1].call.part_dir # "" => wr[w1].call.part_dir # wr[w2].call.part_dir)
    /\ \A h1, h2 \in temporary_parts : h1.dir = h2.dir => h1.holder = h2.holder

\* C9 witness: two calls of the same partition ran interleaved, one returned
\* an empty part and the other failed, each after one read of the counter
C9_Witness ==
    \E w1, w2 \in DOMAIN wr :
        /\ w1 # w2
        /\ ReturnedEmpty(w1)
        /\ wr[w2].pc = "failed"
        /\ wr[w1].call.partition = wr[w2].call.partition
        /\ wr[w1].call.temp_index > wr[w2].call.temp_index
        /\ insert_increment = Cardinality(DOMAIN wr)

\* ========================================================================
\* Properties of tables of the old format (SpecV0)
\* ========================================================================
MinDate(w) == SetMin(Range(Column(wr[w].call.bwp_block, "a")))
MaxDate(w) == SetMax(Range(Column(wr[w].call.bwp_block, "a")))

SameMonth(d1, d2) == toYear(d1) = toYear(d2) /\ toMonth(d1) = toMonth(d2)

\* C10: in a table of the format without custom partitioning a call whose
\* least and greatest date are in different months fails with LOGICAL_ERROR
\* before the directory lock is taken, space is reserved or a directory is
\* created; a call whose dates are in one month gets its part name
\* <min date>_<max date>_<temp_index>_<temp_index>_0.
C10_OldFormatPartInOneMonth ==
    \A w \in DOMAIN wr :
        (Named(w) /\ data.format_version < MinFormatVersionWithCustomPartitioning) =>
            LET c == wr[w].call
            IN  IF SameMonth(MinDate(w), MaxDate(w))
                THEN /\ c.exception # "LOGICAL_ERROR"
                     /\ c.part_name =
                            ToString(toNumYYYYMMDD(MinDate(w))) \o "_"
                            \o ToString(toNumYYYYMMDD(MaxDate(w))) \o "_"
                            \o ToString(c.temp_index) \o "_" \o ToString(c.temp_index)
                            \o "_0"
                ELSE /\ wr[w].pc = "failed"
                     /\ c.exception = "LOGICAL_ERROR"
                     /\ c.trace = <<"insert_increment.get", "minmax_idx.update">>
                     /\ c.part_name = ""
                     /\ c.part_dir = ""
                     /\ c.temp_part = EmptyTemporaryPart
                     /\ ~c.reserved
                     /\ \A h \in temporary_parts : h.holder # w
                     /\ disk = {}

\* C10 witness: a block with the last day of a month and the first day of the
\* next month of the same year has failed
C10_Witness ==
    \E w \in DOMAIN wr :
        /\ wr[w].pc = "failed"
        /\ wr[w].call.exception = "LOGICAL_ERROR"
        /\ toYear(MinDate(w)) = toYear(MaxDate(w))
        /\ MaxDate(w) = MinDate(w) + 1

\* ========================================================================
\* Sorting, projections and the hand-over of the permutation (SpecWrite)
\* ========================================================================
\* the rows are in non-decreasing order of the one-column sorting key
NonDecreasing(rows, sorting_key) ==
    \A i, j \in 1..Len(rows) :
        i < j => rows[i][sorting_key[1]] <= rows[j][sorting_key[1]]

\* the rows of one value of the sorting key, in their order
RowsOfKey(rows, sorting_key, value) ==
    SelectSeq(rows, LAMBDA r : r[sorting_key[1]] = value)

\* the call has passed the sort (line 339 counts every block that gets there)
Sorted(w) == wr[w].call.increment_reads = 1 /\ profile_events.Blocks = 1

\* C11: for a non-empty sorting key the rows handed to the serializer, in the
\* order the permutation gives them, are non-decreasing in the sorting key;
\* when no merging algorithm ran, rows of equal key keep their input order.
\* A permutation is computed exactly when the sorting key is not empty and
\* the block is not already sorted; the already-sorted counter is incremented
\* once for an already sorted block with a sorting key and never otherwise.
C11_SortedStableAndCounted ==
    \A w \in DOMAIN wr :
        LET c == wr[w].call
            S == metadata_snapshot.sorting_key
            sorted_on_entry == S # <<>> /\ NonDecreasing(c.bwp_block, S)
        IN  /\ (c.out # <<>> /\ S # <<>>) =>
                /\ NonDecreasing(RowsWritten(w), S)
                /\ ~c.merge.algorithm =>
                    /\ SameRows(RowsWritten(w), c.bwp_block)
                    /\ \A i \in 1..Len(c.bwp_block) :
                        RowsOfKey(RowsWritten(w), S, c.bwp_block[i][S[1]])
                            = RowsOfKey(c.bwp_block, S, c.bwp_block[i][S[1]])
            /\ (c.out # <<>> /\ S = <<>> /\ ~c.merge.algorithm) =>
                RowsWritten(w) = c.bwp_block
            /\ ~Sorted(w) => profile_events.BlocksAlreadySorted = 0
            /\ Sorted(w) =>
                /\ profile_events.BlocksAlreadySorted = IF sorted_on_entry THEN 1 ELSE 0
                /\ Has(c.trace, "stableGetPermutation") <=> (S # <<>> /\ ~sorted_on_entry)
                /\ Has(c.trace, "isAlreadySorted") <=> sorted_on_entry
                /\ c.perm # <<>> <=> (S # <<>> /\ ~sorted_on_entry)

\* C11 witness: an unsorted block with two different rows of one key was
\* written through a permutation, no merging algorithm having run
C11_Witness ==
    \E w \in DOMAIN wr :
        LET c == wr[w].call
            S == metadata_snapshot.sorting_key
        IN  /\ c.out # <<>>
            /\ S # <<>>
            /\ ~c.merge.algorithm
            /\ c.out[1].permutation = PermPtr
            /\ RowsWritten(w) # c.bwp_block
            /\ \E i, j \in 1..Len(c.bwp_block) :
                /\ i < j
                /\ c.bwp_block[i] # c.bwp_block[j]
                /\ c.bwp_block[i][S[1]] = c.bwp_block[j][S[1]]

\* C15: the serializer of the main part is handed a permutation exactly when
\* the sorting key is not empty, the block was not sorted on entry and no
\* merging algorithm ran on it; an algorithm runs exactly when
\* optimize_on_insert is set and the mode is not Ordinary.  After the sort
\* step, the permutation pointer is null whenever an algorithm completed, and
\* otherwise is set exactly for an unsorted block with a sorting key.
C15_PermutationHandedOverUnlessMerged ==
    \A w \in DOMAIN wr :
        LET c == wr[w].call
            S == metadata_snapshot.sorting_key
            permuted == S # <<>> /\ ~NonDecreasing(c.bwp_block, S)
            completed == /\ c.merge.algorithm
                         /\ c.merge.merge_calls = 2
                         /\ c.merge.status2.is_finished
        IN  /\ c.out # <<>> =>
                /\ c.out[1].permutation = PermPtr <=> (permuted /\ ~c.merge.algorithm)
                /\ c.out[1].permutation = NullPtr <=> ~(permuted /\ ~c.merge.algorithm)
            /\ Sorted(w) =>
                /\ c.merge.algorithm
                    <=> (settings.optimize_on_insert /\ data.merging_params.mode # "Ordinary")
                /\ completed => c.perm_ptr = NullPtr
                /\ ~c.merge.algorithm => (c.perm_ptr = PermPtr <=> permuted)

\* C15 witness: a permutation was computed for an unsorted block, a merging
\* algorithm completed, and the serializer was handed no permutation
C15_Witness ==
    \E w \in DOMAIN wr :
        LET c == wr[w].call
        IN  /\ c.out # <<>>
            /\ c.perm # <<>>
            /\ c.merge.algorithm
            /\ c.merge.merge_calls = 2
            /\ c.out[1].permutation = NullPtr

\* the projections of the table whose block, computed from the rows, has rows
RECURSIVE WithRows(_, _)
WithRows(projections, rows) ==
    IF projections = <<>> THEN <<>>
    ELSE (IF \E i \in 1..Len(rows) : projections[1].where = "v > 0" => rows[i].v > 0
          THEN <<projections[1]>> ELSE <<>>)
         \o WithRows(Tail(projections), rows)

\* every stream of the TemporaryPart had finish() called n times
AllFinished(temp_part, n) ==
    \A i \in 1..Len(temp_part.streams) : temp_part.streams[i].finished = n

\* C12: a returned non-empty part of a table whose projections have k
\* non-empty blocks records exactly those k projection parts, in order, and
\* its stream list holds their k streams followed by the stream of the main
\* part; a projection with an empty block has no part, no directory and no
\* stream.  No finish() was called when writeTempPart returns, and
\* TemporaryPart::finalize has called finish() once on each of the k+1
\* streams when it returns.
C12_ProjectionPartsAndStreams ==
    \A w \in DOMAIN wr :
        LET c == wr[w].call
            tp == c.temp_part
            all == metadata_snapshot.projections
            kept == WithRows(all, c.block)
            k == Len(kept)
        IN  /\ (wr[w].pc \in {"returned", "done"} /\ tp.part # <<>>) =>
                /\ Len(tp.part[1].projection_parts) = k
                /\ \A i \in 1..k : tp.part[1].projection_parts[i].name = kept[i].name
                /\ Len(tp.streams) = k + 1
                /\ \A i \in 1..k :
                    /\ tp.streams[i].dir = c.part_dir
                    /\ tp.streams[i].sub = kept[i].name \o ".proj"
                /\ tp.streams[k + 1].dir = c.part_dir
                /\ tp.streams[k + 1].sub = ""
                /\ \A i \in 1..Len(all) :
                    all[i] \notin Range(kept) =>
                        /\ [dir |-> c.part_dir, sub |-> all[i].name \o ".proj"] \notin disk
                        /\ ~HasAny(c.trace, {"createPart:" \o all[i].name,
                                             "reserveSpace:" \o all[i].name,
                                             "addProjectionPart:" \o all[i].name})
                /\ \A i \in 1..k :
                    [dir |-> c.part_dir, sub |-> kept[i].name \o ".proj"] \in disk
                        <=> isStoredOnDisk(data.part_type)
            /\ wr[w].pc = "returned" => AllFinished(tp, 0)
            /\ wr[w].pc = "done" =>
                /\ AllFinished(tp, 1)
                /\ \A n \in 1..Len(wr[w].parts) : AllFinished(wr[w].parts[n], 1)

\* C12 witness: a table with three projections, one of them with an empty
\* block: the part was returned and finalized with two projection parts
C12_Witness ==
    \E w \in DOMAIN wr :
        /\ wr[w].pc = "done"
        /\ Len(metadata_snapshot.projections) = 3
        /\ Len(wr[w].call.temp_part.part[1].projection_parts) = 2
        /\ Len(wr[w].call.temp_part.streams) = 3
        /\ AllFinished(wr[w].call.temp_part, 1)

CalculateEvents == {"calculate:" \o p.name : p \in Range(metadata_snapshot.projections)}

\* C17: every projection block is computed from the block of the main part
\* as the reduction left it; no projection block is computed before the main
\* block was written to the serializer of the main part or after its
\* finalizePartAsync; a part that is returned had every projection
\* computed.  A projection that selects all rows and does not aggregate
\* writes the rows of the reduced block.  Every projection part has the part
\* info ("all", 0, 0, 0) and is written under <name>.proj of the parent's
\* temporary directory, which exists there exactly for a part stored on disk.
C17_ProjectionsFromReducedBlockAfterMainWrite ==
    \A w \in DOMAIN wr :
        LET c == wr[w].call
            tp == c.temp_part
        IN  /\ \A i \in 1..Len(c.projections.calculated) :
                /\ c.projections.calculated[i].from = c.block
                /\ c.projections.calculated[i].name = metadata_snapshot.projections[i].name
            /\ Precedes(c.trace, "writeWithPermutation", CalculateEvents)
            /\ \A i, j \in 1..Len(c.trace) :
                (c.trace[i] = "finalizePartAsync" /\ c.trace[j] \in CalculateEvents) => j < i
            /\ (wr[w].pc \in {"returned", "done"} /\ tp.part # <<>>) =>
                /\ \A e \in CalculateEvents : Has(c.trace, e)
                /\ Len(c.projections.calculated) = Len(metadata_snapshot.projections)
                /\ \A n \in 1..Len(tp.part[1].projection_parts) :
                    LET name == tp.part[1].projection_parts[n].name
                    IN  /\ tp.part[1].projection_parts[n].info
                            = [partition_id |-> "all", min_block |-> 0,
                               max_block |-> 0, level |-> 0]
                        /\ tp.streams[n].dir = c.part_dir
                        /\ tp.streams[n].sub = name \o ".proj"
                        /\ [dir |-> c.part_dir, sub |-> name \o ".proj"] \in disk
                            <=> isStoredOnDisk(data.part_type)
                        /\ [dir |-> c.part_dir, sub |-> name \o ".tmp_proj"] \notin disk
                        /\ name = "p_norm" => SameRows(tp.streams[n].rows, c.block)

\* C17 witness: the reduction dropped a row of the block, and the part was
\* returned with a projection part that holds the rows that were left
C17_Witness ==
    \E w \in DOMAIN wr :
        LET c == wr[w].call
        IN  /\ ReturnedPart(w)
            /\ Len(c.block) < Len(c.bwp_block)
            /\ Len(c.temp_part.part[1].projection_parts) = 2
            /\ c.temp_part.part[1].projection_parts[1].name = "p_norm"
            /\ c.temp_part.streams[1].sub = "p_norm.proj"
            /\ Len(c.temp_part.streams[1].rows) = Len(c.block)

\* ---------------------------------------------------------------------------
\* The table without a partition key and the lazily built selector (SpecSplit)
\* ---------------------------------------------------------------------------
\* splitBlockIntoParts was called for a table that is not partitioned
SplitNotPartitioned(w) ==
    /\ wr[w].split.called
    /\ metadata_snapshot.partition_key = <<>>

\* C13 as stated: without a partition key every input block, the empty one
\* included, comes back as one element, the block with the empty tuple.
C13_NotPartitionedAlwaysOneElement ==
    \A w \in DOMAIN wr :
        SplitNotPartitioned(w) =>
            /\ wr[w].split.exception = NoException
            /\ wr[w].split.result = <<[block |-> wr[w].input, partition |-> <<>>]>>

\* C13: without a partition key splitBlockIntoParts never fails, whatever
\* max_parts is; a block with rows comes back as exactly one element, the
\* block itself with the empty partition tuple, and a block without rows
\* comes back as the empty sequence.
C13_NotPartitionedOneElementUnlessEmpty ==
    \A w \in DOMAIN wr :
        SplitNotPartitioned(w) =>
            /\ wr[w].split.exception = NoException
            /\ wr[w].input # <<>> =>
                wr[w].split.result = <<[block |-> wr[w].input, partition |-> <<>>]>>
            /\ wr[w].input = <<>> => wr[w].split.result = <<>>

\* C13 witness: three rows that a partition key on a would put into three
\* partitions come back as one element under max_parts = 2
C13_Witness ==
    \E w \in DOMAIN wr :
        /\ SplitNotPartitioned(w)
        /\ settings.max_parts = 2
        /\ Cardinality({wr[w].input[i].a : i \in 1..Len(wr[w].input)}) = 3
        /\ Len(wr[w].split.result) = 1
        /\ wr[w].split.result[1].block = wr[w].input

\* the first row (from 0) of the block whose partition tuple is that of row i
FirstRowOf(partition_key, block, i) ==
    CHOOSE n \in 0..i :
        /\ PartitionTuple(partition_key, block[n + 1]) = PartitionTuple(partition_key, block[i + 1])
        /\ \A m \in 0..(n - 1) :
            PartitionTuple(partition_key, block[m + 1]) # PartitionTuple(partition_key, block[i + 1])

\* the selector built eagerly: the number of partitions that appear in the
\* block before the partition of row i does
DiscoveryIndex(partition_key, block, i) ==
    Cardinality({FirstRowOf(partition_key, block, m) :
                    m \in 0..(FirstRowOf(partition_key, block, i) - 1)})

\* C14: when buildScatterSelector finishes with two or more partitions, the
\* selector has an entry for every row, selector[i] is the number of
\* partitions that appeared before the partition of row i (0 for all rows
\* before the second partition), partition_num_to_first_row[p] is the first row
\* of the p-th partition to appear, and sub-block p holds the rows of that
\* partition in block order; with one partition the selector stays empty and
\* the block is returned without a scatter.
C14_LazySelectorAsEager ==
    \A w \in DOMAIN wr :
        (SplitReturned(w) /\ metadata_snapshot.partition_key # <<>>) =>
            LET pk == metadata_snapshot.partition_key
                block == wr[w].input
                sc == wr[w].split.scatter
                rows == 0..(Len(block) - 1)
                count == Cardinality({FirstRowOf(pk, block, i) : i \in rows})
            IN  /\ sc.partitions_count = count
                /\ Len(sc.partition_num_to_first_row) = count
                /\ \A i \in rows :
                    sc.partition_num_to_first_row[DiscoveryIndex(pk, block, i) + 1]
                        = FirstRowOf(pk, block, i)
                /\ count >= 2 =>
                    /\ Len(sc.selector) = Len(block)
                    /\ \A i \in rows : sc.selector[i + 1] = DiscoveryIndex(pk, block, i)
                    /\ Len(wr[w].split.result) = count
                    /\ \A p \in 0..(count - 1) :
                        wr[w].split.result[p + 1].block
                            = SelectSeq(block, LAMBDA r :
                                \E i \in rows : /\ DiscoveryIndex(pk, block, i) = p
                                                /\ PartitionTuple(pk, block[i + 1])
                                                    = PartitionTuple(pk, r))
                /\ count = 1 =>
                    /\ sc.selector = <<>>
                    /\ Len(wr[w].split.result) = 1
                    /\ wr[w].split.result[1].block = block

\* C14 witness: the second partition appears at the third row and a row of the
\* first partition follows it
C14_Witness ==
    \E w \in DOMAIN wr :
        /\ SplitReturned(w)
        /\ metadata_snapshot.partition_key = <<"a">>
        /\ wr[w].split.scatter.partition_num_to_first_row = <<0, 2>>
        /\ wr[w].split.scatter.selector = <<0, 0, 1, 0>>

\* ---------------------------------------------------------------------------
\* TTL infos of the part (SpecTTL)
\* ---------------------------------------------------------------------------
\* the entries the schema declares for a map of the part's TTL infos
Declared(category) ==
    CASE category = "group_by_ttl" -> metadata_snapshot.ttl.group_by
      [] category = "rows_where_ttl" -> metadata_snapshot.ttl.rows_where
      [] category = "columns_ttl" -> metadata_snapshot.ttl.columns
      [] category = "recompression_ttl" -> metadata_snapshot.ttl.recompression
      [] category = "moves_ttl" -> metadata_snapshot.ttl.move

TTLCategories ==
    {"group_by_ttl", "rows_where_ttl", "columns_ttl", "recompression_ttl", "moves_ttl"}

\* the times, in seconds, a TTL entry takes over the rows of a block
TimesOf(e, block) ==
    {(IF e.type \in {"UInt16", "Const(UInt16)"} THEN 86400 ELSE 1)
        * (IF e.column = "" THEN e.plus ELSE block[i][e.column] + e.plus) :
        i \in 1..Len(block)}

\* the times of the entries that count for the part as a whole
PartWideTimes(block) ==
    UNION {TimesOf(e, block) :
            e \in Range(metadata_snapshot.ttl.rows) \cup Range(Declared("group_by_ttl"))
                  \cup Range(Declared("rows_where_ttl")) \cup Range(Declared("columns_ttl"))}

Covers(ttl_info, times) ==
    /\ ttl_info.min = SetMin(times)
    /\ ttl_info.max = SetMax(times)

\* C16: in a returned non-empty part every map of the TTL infos has exactly
\* the entries the schema declares for its category, the rows TTL is set
\* exactly when the schema has one, and each entry holds the minimum and the
\* maximum of its expression over the rows written; the part-wide minimum
\* and maximum are those of the rows, group-by, rows-where and columns
\* entries together (0 when there is none), whatever the move and
\* recompression entries hold; move_ttl_infos has no part-wide value.
C16_TTLInfosByCategory ==
    \A w \in DOMAIN wr :
        LET c == wr[w].call
            tp == c.temp_part
        IN  (wr[w].pc \in {"returned", "done"} /\ tp.part # <<>>) =>
            LET ttl_infos == tp.part[1].ttl_infos
                part_wide == PartWideTimes(c.block)
            IN  /\ \A category \in TTLCategories :
                    /\ DOMAIN ttl_infos[category]
                        = {(IF category = "columns_ttl" THEN e.name ELSE e.result_column) :
                            e \in Range(Declared(category))}
                    /\ \A e \in Range(Declared(category)) :
                        Covers(ttl_infos[category][IF category = "columns_ttl" THEN e.name
                                                   ELSE e.result_column],
                               TimesOf(e, c.block))
                /\ metadata_snapshot.ttl.rows = <<>> => ttl_infos.table_ttl = EmptyTTLInfo
                /\ metadata_snapshot.ttl.rows # <<>> =>
                    Covers(ttl_infos.table_ttl, TimesOf(metadata_snapshot.ttl.rows[1], c.block))
                /\ part_wide = {} => ttl_infos.part_min_ttl = 0 /\ ttl_infos.part_max_ttl = 0
                /\ part_wide # {} =>
                    /\ ttl_infos.part_min_ttl = SetMin(part_wide)
                    /\ ttl_infos.part_max_ttl = SetMax(part_wide)
                /\ c.move_ttl_infos.part_min_ttl = 0
                /\ c.move_ttl_infos.part_max_ttl = 0
                /\ c.move_ttl_infos.moves_ttl = ttl_infos.moves_ttl

\* C16 witness: a part of a table with entries of all six categories; its move
\* entry starts before the part-wide minimum, its recompression entry ends
\* after the part-wide maximum, and its rows TTL spans two times
C16_Witness ==
    \E w \in DOMAIN wr :
        LET tp == wr[w].call.temp_part
        IN  /\ wr[w].pc = "returned"
            /\ tp.part # <<>>
            /\ metadata_snapshot.ttl = AllTTL
            /\ tp.part[1].ttl_infos.table_ttl.min < tp.part[1].ttl_infos.table_ttl.max
            /\ \E x \in DOMAIN tp.part[1].ttl_infos.moves_ttl :
                /\ tp.part[1].ttl_infos.moves_ttl[x].min # 0
                /\ tp.part[1].ttl_infos.moves_ttl[x].min < tp.part[1].ttl_infos.part_min_ttl
            /\ \E x \in DOMAIN tp.part[1].ttl_infos.recompression_ttl :
                tp.part[1].ttl_infos.recompression_ttl[x].max > tp.part[1].ttl_infos.part_max_ttl

====
